---- MODULE Spec2Model ----
(***************************************************************************)
(* Restaurant valuation calculator: the valuation and health-scoring       *)
(* engine of src/lib/calculations.ts.                                      *)
(*                                                                         *)
(* Numbers.  The engine works on JavaScript numbers.  A number is modelled *)
(* as a record [n, d]: for d > 0 the exact rational n/d in lowest terms,   *)
(* for d = 0 one of the three non-finite values a division can produce:    *)
(* n = 1 is Infinity, n = -1 is -Infinity and n = 0 is NaN.  Arithmetic on  *)
(* finite values is exact (the binary rounding of IEEE doubles, of the     *)
(* order of 1e-10 on the amounts handled here, is not modelled); the rules *)
(* for division by zero, for NaN in comparisons and for Math.round are     *)
(* those of the language.                                                  *)
(*                                                                         *)
(* State.  inputs, results, breakdown and validationErrors are the state   *)
(* of the calculator component of src/app/calculators/valuation/page.tsx   *)
(* and, in the specifications that call the engine directly, the record a  *)
(* caller passes and what it gets back; health holds the local variables   *)
(* of calculateHealthScore; calls is the record of the calls made so far   *)
(* where a property relates several calls; pc is the position of the       *)
(* caller.                                                                 *)
(***************************************************************************)
EXTENDS Integers, Sequences, FiniteSets, TLC

VARIABLES inputs, pc, results, health, breakdown, validationErrors, calls,
          isGeneratingPDF, toast, requests, access_tokens, env, now

\* The download state of the calculator component
downloadVars == <<isGeneratingPDF, toast>>

\* The requests sent to the API routes, the table behind them, the
\* environment of the server and its clock
serviceVars == <<requests, access_tokens, env, now>>

vars == <<inputs, pc, results, health, breakdown, validationErrors, calls,
          downloadVars, serviceVars>>

Null == [none |-> TRUE]

\* No download has been asked for, no toast shown
NoDownload ==
  /\ isGeneratingPDF = FALSE
  /\ toast = Null

\* No request has been sent and the table is empty
NoService ==
  /\ requests = <<>>
  /\ access_tokens = {}
  /\ env = Null
  /\ now = 0

----------------------------------------------------------------------------
(* JavaScript numbers *)

Abs(x) == IF x < 0 THEN -x ELSE x

Sgn(x) == IF x > 0 THEN 1 ELSE IF x < 0 THEN -1 ELSE 0

RECURSIVE Gcd(_, _)
Gcd(a, b) == IF b = 0 THEN a ELSE Gcd(b, a % b)

\* n/d in lowest terms, d > 0
Frac(n, d) == LET g == Gcd(Abs(n), d) IN [n |-> n \div g, d |-> d \div g]

Num(k) == [n |-> k, d |-> 1]

NaN == [n |-> 0, d |-> 0]

PosInf == [n |-> 1, d |-> 0]

NegInf == [n |-> -1, d |-> 0]

IsFinite(x) == x.d # 0

IsNaN(x) == x.d = 0 /\ x.n = 0

\* a * b; 0 * Infinity is NaN
Mul(a, b) ==
  IF IsFinite(a) /\ IsFinite(b)
  THEN LET g1 == Gcd(Abs(a.n), b.d)
           g2 == Gcd(Abs(b.n), a.d)
       IN [n |-> (a.n \div g1) * (b.n \div g2), d |-> (a.d \div g2) * (b.d \div g1)]
  ELSE [n |-> Sgn(a.n) * Sgn(b.n), d |-> 0]

\* a + b; Infinity + -Infinity is NaN
Add(a, b) ==
  IF IsFinite(a) /\ IsFinite(b)
  THEN LET g == Gcd(a.d, b.d)
       IN Frac(a.n * (b.d \div g) + b.n * (a.d \div g), (a.d \div g) * b.d)
  ELSE IF IsNaN(a) \/ IsNaN(b) THEN NaN
  ELSE IF IsFinite(a) THEN b
  ELSE IF IsFinite(b) THEN a
  ELSE IF a.n = b.n THEN a ELSE NaN

Neg(a) == [n |-> -a.n, d |-> a.d]

Sub(a, b) == Add(a, Neg(b))

\* a / b; x / 0 is Infinity, -Infinity or NaN by the sign of x
Div(a, b) ==
  IF IsFinite(b)
  THEN IF b.n = 0
       THEN [n |-> Sgn(a.n), d |-> 0]
       ELSE Mul(a, [n |-> Sgn(b.n) * b.d, d |-> Abs(b.n)])
  ELSE IF IsFinite(a) /\ ~IsNaN(b) THEN Num(0) ELSE NaN

\* a < b; every comparison with NaN is false
Lt(a, b) ==
  IF IsNaN(a) \/ IsNaN(b) THEN FALSE
  ELSE IF IsFinite(a) /\ IsFinite(b)
    THEN LET g == Gcd(a.d, b.d) IN a.n * (b.d \div g) < b.n * (a.d \div g)
  ELSE IF IsFinite(a) THEN b.n > 0
  ELSE IF IsFinite(b) THEN a.n < 0
  ELSE a.n < b.n

Eq(a, b) == ~IsNaN(a) /\ ~IsNaN(b) /\ a = b

Le(a, b) == Lt(a, b) \/ Eq(a, b)

Gt(a, b) == Lt(b, a)

Ge(a, b) == Le(b, a)

\* Math.abs
MathAbs(a) == [n |-> Abs(a.n), d |-> a.d]

\* Math.min
MathMin(a, b) == IF IsNaN(a) \/ IsNaN(b) THEN NaN ELSE IF Lt(b, a) THEN b ELSE a

\* Math.round: the nearest integer, a tie going up
MathRound(a) ==
  IF IsFinite(a)
  THEN Num((a.n \div a.d) + (IF 2 * (a.n % a.d) >= a.d THEN 1 ELSE 0))
  ELSE a

----------------------------------------------------------------------------
(* src/lib/calculations.ts *)

\* Mutant: the expenses are not adjusted
OPERATING_EXPENSE_ADJUSTMENT_Unadjusted == Num(1)

OPERATING_EXPENSE_ADJUSTMENT == Frac(772727, 1000000)

\* Mutant: the tier from 7 to 10 rises by 3 points, not by 4
profitScore_FlatTier(profitMargin) ==
  IF Ge(profitMargin, Num(15)) THEN Num(20)
  ELSE IF Ge(profitMargin, Num(12))
    THEN Add(Num(17), Mul(Div(Sub(profitMargin, Num(12)), Num(3)), Num(3)))
  ELSE IF Ge(profitMargin, Num(10))
    THEN Add(Num(15), Mul(Div(Sub(profitMargin, Num(10)), Num(2)), Num(2)))
  ELSE IF Ge(profitMargin, Num(7))
    THEN Add(Num(11), Mul(Div(Sub(profitMargin, Num(7)), Num(3)), Num(3)))
  ELSE IF Ge(profitMargin, Num(5))
    THEN Add(Num(8), Mul(Div(Sub(profitMargin, Num(5)), Num(2)), Num(3)))
  ELSE IF Ge(profitMargin, Num(0))
    THEN Mul(Div(profitMargin, Num(5)), Num(8))
  ELSE Num(0)

\* Factor 1: profit margin, 20 points at most
profitScore(profitMargin) ==
  IF Ge(profitMargin, Num(15)) THEN Num(20)
  ELSE IF Ge(profitMargin, Num(12))
    THEN Add(Num(17), Mul(Div(Sub(profitMargin, Num(12)), Num(3)), Num(3)))
  ELSE IF Ge(profitMargin, Num(10))
    THEN Add(Num(15), Mul(Div(Sub(profitMargin, Num(10)), Num(2)), Num(2)))
  ELSE IF Ge(profitMargin, Num(7))
    THEN Add(Num(11), Mul(Div(Sub(profitMargin, Num(7)), Num(3)), Num(4)))
  ELSE IF Ge(profitMargin, Num(5))
    THEN Add(Num(8), Mul(Div(Sub(profitMargin, Num(5)), Num(2)), Num(3)))
  ELSE IF Ge(profitMargin, Num(0))
    THEN Mul(Div(profitMargin, Num(5)), Num(8))
  ELSE Num(0)

\* Mutant: the tiers are closed at 28 and 25 only, so 32 and 35 fall into the
\* tier below
foodScore_OpenAbove(foodCost) ==
  IF Ge(foodCost, Num(28)) /\ Lt(foodCost, Num(32)) THEN Num(15)
  ELSE IF Ge(foodCost, Num(25)) /\ Lt(foodCost, Num(35))
    THEN LET deviation == MathMin(MathAbs(Sub(foodCost, Num(30))), Num(5))
         IN Sub(Num(15), Mul(Div(deviation, Num(5)), Num(3)))
  ELSE IF Ge(foodCost, Num(20)) /\ Le(foodCost, Num(40))
    THEN LET deviation == MathMin(MathAbs(Sub(foodCost, Num(30))), Num(10))
         IN Sub(Num(12), Mul(Div(Sub(deviation, Num(5)), Num(5)), Num(4)))
  ELSE IF Ge(foodCost, Num(15)) /\ Le(foodCost, Num(45)) THEN Num(4)
  ELSE Num(0)

\* Factor 2: food cost efficiency, 15 points at most
foodScore(foodCost) ==
  IF Ge(foodCost, Num(28)) /\ Le(foodCost, Num(32)) THEN Num(15)
  ELSE IF Ge(foodCost, Num(25)) /\ Le(foodCost, Num(35))
    THEN LET deviation == MathMin(MathAbs(Sub(foodCost, Num(30))), Num(5))
         IN Sub(Num(15), Mul(Div(deviation, Num(5)), Num(3)))
  ELSE IF Ge(foodCost, Num(20)) /\ Le(foodCost, Num(40))
    THEN LET deviation == MathMin(MathAbs(Sub(foodCost, Num(30))), Num(10))
         IN Sub(Num(12), Mul(Div(Sub(deviation, Num(5)), Num(5)), Num(4)))
  ELSE IF Ge(foodCost, Num(15)) /\ Le(foodCost, Num(45)) THEN Num(4)
  ELSE Num(0)

\* Mutant: the deviation is measured from 30, the ideal of the benchmark
\* table, not from 28.5
laborScore_CentredAt30(laborCost) ==
  IF Ge(laborCost, Num(25)) /\ Le(laborCost, Num(32)) THEN Num(15)
  ELSE IF Ge(laborCost, Num(22)) /\ Le(laborCost, Num(35))
    THEN LET deviation == MathMin(MathAbs(Sub(laborCost, Num(30))), Frac(65, 10))
         IN Sub(Num(15), Mul(Div(deviation, Frac(65, 10)), Num(3)))
  ELSE IF Ge(laborCost, Num(20)) /\ Le(laborCost, Num(40))
    THEN LET deviation == MathMin(MathAbs(Sub(laborCost, Num(30))), Frac(115, 10))
         IN Sub(Num(12), Mul(Div(Sub(deviation, Frac(65, 10)), Num(5)), Num(4)))
  ELSE IF Ge(laborCost, Num(15)) /\ Le(laborCost, Num(45)) THEN Num(4)
  ELSE Num(0)

\* Factor 3: labor cost efficiency, 15 points at most
laborScore(laborCost) ==
  IF Ge(laborCost, Num(25)) /\ Le(laborCost, Num(32)) THEN Num(15)
  ELSE IF Ge(laborCost, Num(22)) /\ Le(laborCost, Num(35))
    THEN LET deviation == MathMin(MathAbs(Sub(laborCost, Frac(285, 10))), Frac(65, 10))
         IN Sub(Num(15), Mul(Div(deviation, Frac(65, 10)), Num(3)))
  ELSE IF Ge(laborCost, Num(20)) /\ Le(laborCost, Num(40))
    THEN LET deviation == MathMin(MathAbs(Sub(laborCost, Frac(285, 10))), Frac(115, 10))
         IN Sub(Num(12), Mul(Div(Sub(deviation, Frac(65, 10)), Num(5)), Num(4)))
  ELSE IF Ge(laborCost, Num(15)) /\ Le(laborCost, Num(45)) THEN Num(4)
  ELSE Num(0)

\* Mutant: the last tier starts at 0, not at 3
occupancyScore_LastTierFromZero(occupancyCost) ==
  IF Ge(occupancyCost, Num(6)) /\ Le(occupancyCost, Num(10)) THEN Num(10)
  ELSE IF Ge(occupancyCost, Num(5)) /\ Le(occupancyCost, Num(12))
    THEN LET deviation == MathMin(MathAbs(Sub(occupancyCost, Num(8))), Num(4))
         IN Sub(Num(10), Mul(Div(deviation, Num(4)), Num(2)))
  ELSE IF Ge(occupancyCost, Num(3)) /\ Le(occupancyCost, Num(15))
    THEN LET deviation == MathMin(MathAbs(Sub(occupancyCost, Num(8))), Num(7))
         IN Sub(Num(8), Mul(Div(Sub(deviation, Num(4)), Num(3)), Num(3)))
  ELSE IF Ge(occupancyCost, Num(0)) /\ Le(occupancyCost, Num(20)) THEN Num(3)
  ELSE Num(0)

\* Factor 4: occupancy cost efficiency, 10 points at most
occupancyScore(occupancyCost) ==
  IF Ge(occupancyCost, Num(6)) /\ Le(occupancyCost, Num(10)) THEN Num(10)
  ELSE IF Ge(occupancyCost, Num(5)) /\ Le(occupancyCost, Num(12))
    THEN LET deviation == MathMin(MathAbs(Sub(occupancyCost, Num(8))), Num(4))
         IN Sub(Num(10), Mul(Div(deviation, Num(4)), Num(2)))
  ELSE IF Ge(occupancyCost, Num(3)) /\ Le(occupancyCost, Num(15))
    THEN LET deviation == MathMin(MathAbs(Sub(occupancyCost, Num(8))), Num(7))
         IN Sub(Num(8), Mul(Div(Sub(deviation, Num(4)), Num(3)), Num(3)))
  ELSE IF Ge(occupancyCost, Num(3)) /\ Le(occupancyCost, Num(20)) THEN Num(3)
  ELSE Num(0)

\* Mutant: the cash flow as a fraction of the sales, not as a percentage
cashFlowMarginOf_Fraction(cashFlow, annualSales) == Div(cashFlow, annualSales)

\* Factor 5, first line: cash flow as a percentage of sales; the division is
\* not guarded
cashFlowMarginOf(cashFlow, annualSales) == Mul(Div(cashFlow, annualSales), Num(100))

\* Mutant: the top tier is missing, so the 40-50 formula also serves above 50
cashFlowScore_NoCap(cashFlowMargin) ==
  IF Ge(cashFlowMargin, Num(40))
    THEN Add(Num(55), Mul(Div(Sub(cashFlowMargin, Num(40)), Num(10)), Num(5)))
  ELSE IF Ge(cashFlowMargin, Num(30))
    THEN Add(Num(45), Mul(Div(Sub(cashFlowMargin, Num(30)), Num(10)), Num(10)))
  ELSE IF Ge(cashFlowMargin, Num(20))
    THEN Add(Num(35), Mul(Div(Sub(cashFlowMargin, Num(20)), Num(10)), Num(10)))
  ELSE IF Ge(cashFlowMargin, Num(15))
    THEN Add(Num(27), Mul(Div(Sub(cashFlowMargin, Num(15)), Num(5)), Num(8)))
  ELSE IF Ge(cashFlowMargin, Num(10))
    THEN Add(Num(18), Mul(Div(Sub(cashFlowMargin, Num(10)), Num(5)), Num(9)))
  ELSE IF Ge(cashFlowMargin, Num(5))
    THEN Add(Num(8), Mul(Div(Sub(cashFlowMargin, Num(5)), Num(5)), Num(10)))
  ELSE IF Ge(cashFlowMargin, Num(0))
    THEN Mul(Div(cashFlowMargin, Num(5)), Num(8))
  ELSE Num(0)

\* Mutant: the tier from 40 to 50 is flat at 55
cashFlowScore_FlatBonusTier(cashFlowMargin) ==
  IF Ge(cashFlowMargin, Num(50)) THEN Num(60)
  ELSE IF Ge(cashFlowMargin, Num(40)) THEN Num(55)
  ELSE cashFlowScore_NoCap(cashFlowMargin)

\* Factor 5: cash flow strength, 40 points and up to 20 bonus points
cashFlowScore(cashFlowMargin) ==
  IF Ge(cashFlowMargin, Num(50)) THEN Num(60)
  ELSE IF Ge(cashFlowMargin, Num(40))
    THEN Add(Num(55), Mul(Div(Sub(cashFlowMargin, Num(40)), Num(10)), Num(5)))
  ELSE IF Ge(cashFlowMargin, Num(30))
    THEN Add(Num(45), Mul(Div(Sub(cashFlowMargin, Num(30)), Num(10)), Num(10)))
  ELSE IF Ge(cashFlowMargin, Num(20))
    THEN Add(Num(35), Mul(Div(Sub(cashFlowMargin, Num(20)), Num(10)), Num(10)))
  ELSE IF Ge(cashFlowMargin, Num(15))
    THEN Add(Num(27), Mul(Div(Sub(cashFlowMargin, Num(15)), Num(5)), Num(8)))
  ELSE IF Ge(cashFlowMargin, Num(10))
    THEN Add(Num(18), Mul(Div(Sub(cashFlowMargin, Num(10)), Num(5)), Num(9)))
  ELSE IF Ge(cashFlowMargin, Num(5))
    THEN Add(Num(8), Mul(Div(Sub(cashFlowMargin, Num(5)), Num(5)), Num(10)))
  ELSE IF Ge(cashFlowMargin, Num(0))
    THEN Mul(Div(cashFlowMargin, Num(5)), Num(8))
  ELSE Num(0)

\* Mutant: the score is cut, not rounded, to one decimal place
roundScore_Truncated(totalScore) ==
  LET x == Mul(totalScore, Num(10))
  IN IF IsFinite(x) THEN Div(Num(x.n \div x.d), Num(10)) ELSE x

\* The last line of calculateHealthScore: round to one decimal place
roundScore(totalScore) == Div(MathRound(Mul(totalScore, Num(10))), Num(10))

\* calculateHealthScore with its local variables; score is the value returned
healthScoreLocals(in, profitMargin, cashFlow) ==
  LET ps == profitScore(profitMargin)
      fs == foodScore(in.foodCostPercent)
      ls == laborScore(in.laborCostPercent)
      os == occupancyScore(in.occupancyCostPercent)
      cashFlowMargin == cashFlowMarginOf(cashFlow, in.annualSales)
      cs == cashFlowScore(cashFlowMargin)
      totalScore == Add(Add(Add(Add(Add(Num(0), ps), fs), ls), os), cs)
  IN [profitMargin |-> profitMargin, cashFlow |-> cashFlow,
      profitScore |-> ps, foodScore |-> fs, laborScore |-> ls,
      occupancyScore |-> os, cashFlowMargin |-> cashFlowMargin,
      cashFlowScore |-> cs, totalScore |-> totalScore,
      score |-> roundScore(totalScore)]

calculateHealthScore(in, profitMargin, cashFlow) ==
  healthScoreLocals(in, profitMargin, cashFlow).score

\* Mutant: the cash flow is multiplied by the desired ROI, not divided by it
estimatedValueOf_Multiplied(cashFlow, desiredROI) ==
  IF Gt(desiredROI, Num(0)) THEN Mul(cashFlow, Div(desiredROI, Num(100))) ELSE Num(0)

\* Mutant: the division by the desired ROI is not guarded
estimatedValueOf_Unguarded(cashFlow, desiredROI) ==
  Div(cashFlow, Div(desiredROI, Num(100)))

\* Step 4 of calculateValuation
estimatedValueOf(cashFlow, desiredROI) ==
  IF Gt(desiredROI, Num(0)) THEN Div(cashFlow, Div(desiredROI, Num(100))) ELSE Num(0)

\* Mutant: the division by the annual sales is not guarded
profitMarginOf_Unguarded(operatingProfit, annualSales) ==
  Mul(Div(operatingProfit, annualSales), Num(100))

\* The profit margin of calculateValuation
profitMarginOf(operatingProfit, annualSales) ==
  IF Gt(annualSales, Num(0)) THEN Mul(Div(operatingProfit, annualSales), Num(100)) ELSE Num(0)

\* Mutant: a score on a threshold falls in the lower bucket
healthStatusOf_Strict(healthScore) ==
  IF Gt(healthScore, Num(85)) THEN "Excellent"
  ELSE IF Gt(healthScore, Num(70)) THEN "Good"
  ELSE IF Gt(healthScore, Num(55)) THEN "Fair"
  ELSE "Poor"

\* The health status of calculateValuation
healthStatusOf(healthScore) ==
  IF Ge(healthScore, Num(85)) THEN "Excellent"
  ELSE IF Ge(healthScore, Num(70)) THEN "Good"
  ELSE IF Ge(healthScore, Num(55)) THEN "Fair"
  ELSE "Poor"

\* Mutant: the plain percentage of the sales, as in the formula of the header
adjustedExpense_NoAdjustment(annualSales, percent) ==
  Mul(annualSales, Div(percent, Num(100)))

\* One adjusted expense amount of calculateValuation
adjustedExpense(annualSales, percent) ==
  Mul(Mul(annualSales, Div(percent, Num(100))), OPERATING_EXPENSE_ADJUSTMENT)

\* calculateValuation: the record returned, and under hs the locals of its
\* call of calculateHealthScore
calculateValuationLocals(in) ==
  LET foodCost == Mul(in.annualSales, Div(in.foodCostPercent, Num(100)))
      grossProfit == Mul(in.annualSales, Sub(Num(1), Div(in.foodCostPercent, Num(100))))
      laborCost == adjustedExpense(in.annualSales, in.laborCostPercent)
      occupancyCost == adjustedExpense(in.annualSales, in.occupancyCostPercent)
      otherExpenses == adjustedExpense(in.annualSales, in.otherExpensesPercent)
      totalOperatingExpenses == Add(Add(laborCost, occupancyCost), otherExpenses)
      operatingProfit == Sub(grossProfit, totalOperatingExpenses)
      cashFlow == Add(operatingProfit, in.ownerCompensation)
      estimatedValue == estimatedValueOf(cashFlow, in.desiredROI)
      desiredROIValue == estimatedValue
      profitMargin == profitMarginOf(operatingProfit, in.annualSales)
      hs == healthScoreLocals(in, profitMargin, cashFlow)
  IN [ret |-> [grossProfit |-> grossProfit,
               operatingProfit |-> operatingProfit,
               cashFlow |-> cashFlow,
               estimatedValue |-> estimatedValue,
               desiredROIValue |-> desiredROIValue,
               healthStatus |-> healthStatusOf(hs.score),
               profitMargin |-> profitMargin,
               breakdown |-> [foodCost |-> foodCost,
                              laborCost |-> laborCost,
                              occupancyCost |-> occupancyCost,
                              otherExpenses |-> otherExpenses,
                              totalOperatingExpenses |-> totalOperatingExpenses]],
      hs |-> hs]

\* Mutant: step 3 leaves the owner's compensation out of the cash flow
calculateValuation_OwnerCompensationIgnored(in) ==
  calculateValuationLocals([in EXCEPT !.ownerCompensation = Num(0)]).ret

\* Mutant: the owner's compensation is read from a scratch object shared by
\* all calls, which still holds the value of the call before
calculateValuation_SharedScratch(in) ==
  IF calls = <<>>
  THEN calculateValuationLocals(in).ret
  ELSE calculateValuationLocals(
         [in EXCEPT !.ownerCompensation = calls[Len(calls)].args.ownerCompensation]).ret

calculateValuation(in) == calculateValuationLocals(in).ret

\* The benchmark table: its ideal values
INDUSTRY_BENCHMARKS ==
  [foodCost |-> [min |-> Num(28), max |-> Num(35), ideal |-> Num(30)],
   laborCost |-> [min |-> Num(25), max |-> Num(35), ideal |-> Num(30)],
   occupancyCost |-> [min |-> Num(6), max |-> Num(10), ideal |-> Num(8)],
   otherExpenses |-> [min |-> Num(10), max |-> Num(20), ideal |-> Num(15)],
   profitMargin |-> [excellent |-> Num(15), good |-> Num(10), fair |-> Num(5)]]

\* The inputs of testCalculation
testInputs ==
  [annualSales |-> Num(1200000), foodCostPercent |-> Num(32),
   laborCostPercent |-> Num(30), occupancyCostPercent |-> Num(10),
   otherExpensesPercent |-> Num(15), ownerCompensation |-> Num(100000),
   desiredROI |-> Num(25)]

\* The value testCalculation and the test script expect
expectedValue == 1624000

\* testCalculation: the estimated value is within $1000 of the expected one
testCalculation ==
  LET result == calculateValuation(testInputs)
      variance == MathAbs(Sub(result.estimatedValue, Num(expectedValue)))
  IN Lt(variance, Num(1000))

\* The test script test-calculations.js: its health status, from the profit
\* margin alone
scriptHealthStatus(profitMargin) ==
  IF Ge(profitMargin, Num(15)) THEN "Excellent"
  ELSE IF Ge(profitMargin, Num(10)) THEN "Good"
  ELSE IF Ge(profitMargin, Num(5)) THEN "Fair"
  ELSE "Poor"

\* The test script: its pass condition on the estimated value
scriptIsCorrect(estimatedValue) ==
  LET actualValue == MathRound(estimatedValue)
  IN Eq(actualValue, Num(expectedValue))

----------------------------------------------------------------------------
(* src/lib/calculations.ts: validateInputs *)

\* if (condition) { errors.push(message) }: what the statement appends
pushIf(condition, message) == IF condition THEN <<message>> ELSE <<>>

\* Mutant: the minimum itself is rejected
annualSalesErrors_MinimumRejected(in) ==
  pushIf(Le(in.annualSales, Num(100000)), "Annual sales must be at least $100,000")
  \o pushIf(Gt(in.annualSales, Num(50000000)), "Annual sales must not exceed $50,000,000")

\* Annual sales: two rules, each with its own message
annualSalesErrors(in) ==
  pushIf(Lt(in.annualSales, Num(100000)), "Annual sales must be at least $100,000")
  \o pushIf(Gt(in.annualSales, Num(50000000)), "Annual sales must not exceed $50,000,000")

foodCostErrors(in) ==
  pushIf(Lt(in.foodCostPercent, Num(15)) \/ Gt(in.foodCostPercent, Num(60)),
         "Food cost must be between 15% and 60%")

laborCostErrors(in) ==
  pushIf(Lt(in.laborCostPercent, Num(15)) \/ Gt(in.laborCostPercent, Num(50)),
         "Labor cost must be between 15% and 50%")

occupancyCostErrors(in) ==
  pushIf(Lt(in.occupancyCostPercent, Num(3)) \/ Gt(in.occupancyCostPercent, Num(20)),
         "Occupancy cost must be between 3% and 20%")

otherExpensesErrors(in) ==
  pushIf(Lt(in.otherExpensesPercent, Num(5)) \/ Gt(in.otherExpensesPercent, Num(30)),
         "Other expenses must be between 5% and 30%")

\* Owner compensation: two rules, each with its own message
ownerCompensationErrors(in) ==
  pushIf(Lt(in.ownerCompensation, Num(0)), "Owner compensation cannot be negative")
  \o pushIf(Gt(in.ownerCompensation, Num(1000000)),
            "Owner compensation must not exceed $1,000,000")

\* Mutant: the two ends of the range are rejected
desiredROIErrors_EndsRejected(in) ==
  pushIf(Le(in.desiredROI, Num(10)) \/ Ge(in.desiredROI, Num(50)),
         "Desired ROI must be between 10% and 50%")

desiredROIErrors(in) ==
  pushIf(Lt(in.desiredROI, Num(10)) \/ Gt(in.desiredROI, Num(50)),
         "Desired ROI must be between 10% and 50%")

\* Mutant: the other expenses are left out of the total
totalExpensePercent_WithoutOther(in) ==
  Add(Add(in.foodCostPercent, in.laborCostPercent), in.occupancyCostPercent)

totalExpensePercent(in) ==
  Add(Add(Add(in.foodCostPercent, in.laborCostPercent), in.occupancyCostPercent),
      in.otherExpensesPercent)

\* Mutant: the total of the four percentages is not checked
totalExpensesErrors_Never(in) == pushIf(FALSE, "Total expenses cannot exceed 100% of sales")

totalExpensesErrors(in) ==
  pushIf(Gt(totalExpensePercent(in), Num(100)), "Total expenses cannot exceed 100% of sales")

\* Mutant: the total is checked first
validateInputs_TotalFirst(in) ==
  LET errors == totalExpensesErrors(in) \o annualSalesErrors(in) \o foodCostErrors(in)
                \o laborCostErrors(in) \o occupancyCostErrors(in)
                \o otherExpensesErrors(in) \o ownerCompensationErrors(in)
                \o desiredROIErrors(in)
  IN [valid |-> Len(errors) = 0, errors |-> errors]

validateInputs(in) ==
  LET errors == annualSalesErrors(in) \o foodCostErrors(in) \o laborCostErrors(in)
                \o occupancyCostErrors(in) \o otherExpensesErrors(in)
                \o ownerCompensationErrors(in) \o desiredROIErrors(in)
                \o totalExpensesErrors(in)
  IN [valid |-> Len(errors) = 0, errors |-> errors]

----------------------------------------------------------------------------
(* The input records the calls are made with *)

MaxSalesK == 1

MaxFoodK == 3

MaxLaborK == 2

MaxOccupancyK == 2

MaxOtherK == 1

MaxOwnerK == 2

MaxRoiK == 1

\* Every set holds a negative value, the value of the reference scenario and a
\* grid that crosses tiers of the scoring.  The values are chosen so that every
\* numerator and denominator of the exact arithmetic stays below 2^31.
annualSalesValues == {Num(-100000), Num(1200000)} \cup {Num(1000000 * k) : k \in 0..MaxSalesK}

foodValues == {Num(-10), Num(30)} \cup {Num(18 + 7 * k) : k \in 0..MaxFoodK}

laborValues == {Num(-10), Frac(285, 10)} \cup {Num(21 + 9 * k) : k \in 0..MaxLaborK}

occupancyValues == {Num(-5), Num(8)} \cup {Num(5 * k) : k \in 0..MaxOccupancyK}

otherValues == {Num(-5)} \cup {Num(5 + 10 * k) : k \in 0..MaxOtherK}

ownerValues == {Num(-260000), Num(100000)} \cup {Num(120000 * k) : k \in 0..MaxOwnerK}

roiValues == {Num(0)} \cup {Num(35 * k - 10) : k \in 0..MaxRoiK}

InputRecords ==
  [annualSales : annualSalesValues, foodCostPercent : foodValues,
   laborCostPercent : laborValues, occupancyCostPercent : occupancyValues,
   otherExpensesPercent : otherValues, ownerCompensation : ownerValues,
   desiredROI : roiValues]

----------------------------------------------------------------------------
(* A caller with an input record calls calculateValuation once *)

Init ==
  /\ inputs \in InputRecords
  /\ pc = "start"
  /\ results = Null
  /\ health = Null
  /\ breakdown = Null
  /\ validationErrors = <<>>
  /\ calls = <<>>
  /\ NoDownload
  /\ NoService

CallCalculateValuation ==
  /\ pc = "start"
  /\ LET c == calculateValuationLocals(inputs)
     IN /\ results' = c.ret
        /\ health' = c.hs
  /\ pc' = "returned"
  /\ UNCHANGED <<inputs, breakdown, validationErrors, calls, downloadVars, serviceVars>>

Next == CallCalculateValuation

Spec == Init /\ [][Next]_vars

----------------------------------------------------------------------------
(* calculateHealthScore called on its own, with a profit margin and a cash    *)
(* flow that need not come from the input record                              *)

MaxHsSalesK == 1

MaxHsFoodK == 5

MaxHsLaborK == 5

MaxHsOccupancyK == 5

MaxProfitMarginK == 7

MaxCashFlowK == 10

hsInputRecords ==
  {[testInputs EXCEPT !.annualSales = Num(1000000 * s),
                      !.foodCostPercent = Num(14 + 6 * f),
                      !.laborCostPercent = Num(16 + 6 * l),
                      !.occupancyCostPercent = Num(2 + 3 * o)] :
     s \in 0..MaxHsSalesK, f \in 0..MaxHsFoodK, l \in 0..MaxHsLaborK,
     o \in 0..MaxHsOccupancyK}

profitMarginArgs == {Frac(5 * k - 4, 2) : k \in 0..MaxProfitMarginK}

cashFlowArgs == {Num(55000 * k - 40000) : k \in 0..MaxCashFlowK}

InitHS ==
  /\ inputs \in hsInputRecords
  /\ pc = "start"
  /\ results = Null
  /\ health = Null
  /\ breakdown = Null
  /\ validationErrors = <<>>
  /\ calls = <<>>
  /\ NoDownload
  /\ NoService

CallCalculateHealthScore ==
  /\ pc = "start"
  /\ \E profitMargin \in profitMarginArgs, cashFlow \in cashFlowArgs :
       health' = healthScoreLocals(inputs, profitMargin, cashFlow)
  /\ pc' = "returned"
  /\ UNCHANGED <<inputs, results, breakdown, validationErrors, calls, downloadVars, serviceVars>>

NextHS == CallCalculateHealthScore

SpecHS == InitHS /\ [][NextHS]_vars

----------------------------------------------------------------------------
(* A caller calls calculateValuation twice, the second time with a record   *)
(* that differs from the first in the desired ROI or in the owner's         *)
(* compensation alone                                                       *)

MaxPairRoiK == 4

MaxPairOwnerK == 2

pairRoiValues == {Num(25 * k) : k \in 0..MaxPairRoiK}

pairOwnerValues == {Num(-260000), Num(100000)} \cup {Num(120000 * k) : k \in 0..MaxPairOwnerK}

pairInputRecords ==
  [annualSales : {Num(0), Num(1000000), Num(1200000)},
   foodCostPercent : {Num(30), Num(32)},
   laborCostPercent : {Num(30)},
   occupancyCostPercent : {Num(10)},
   otherExpensesPercent : {Num(15)},
   ownerCompensation : pairOwnerValues,
   desiredROI : pairRoiValues]

\* One call of the engine, as the record of calls keeps it
callOf(caller, fn, in) ==
  [caller |-> caller, fn |-> fn, args |-> in,
   ret |-> IF fn = "validateInputs" THEN validateInputs(in) ELSE calculateValuation(in)]

InitPair ==
  /\ inputs \in pairInputRecords
  /\ pc = "start"
  /\ results = Null
  /\ health = Null
  /\ breakdown = Null
  /\ validationErrors = <<>>
  /\ calls = <<>>
  /\ NoDownload
  /\ NoService

CallFirst ==
  /\ pc = "start"
  /\ calls' = <<callOf(1, "calculateValuation", inputs)>>
  /\ results' = calls'[1].ret
  /\ pc' = "first"
  /\ UNCHANGED <<inputs, health, breakdown, validationErrors, downloadVars, serviceVars>>

CallAgainWithDesiredROI ==
  /\ pc = "first"
  /\ \E r \in pairRoiValues \ {inputs.desiredROI} :
       /\ inputs' = [inputs EXCEPT !.desiredROI = r]
       /\ calls' = Append(calls, callOf(1, "calculateValuation", inputs'))
  /\ results' = calls'[2].ret
  /\ pc' = "second"
  /\ UNCHANGED <<health, breakdown, validationErrors, downloadVars, serviceVars>>

CallAgainWithOwnerCompensation ==
  /\ pc = "first"
  /\ \E c \in pairOwnerValues \ {inputs.ownerCompensation} :
       /\ inputs' = [inputs EXCEPT !.ownerCompensation = c]
       /\ calls' = Append(calls, callOf(1, "calculateValuation", inputs'))
  /\ results' = calls'[2].ret
  /\ pc' = "second"
  /\ UNCHANGED <<health, breakdown, validationErrors, downloadVars, serviceVars>>

NextPair == CallFirst \/ CallAgainWithDesiredROI \/ CallAgainWithOwnerCompensation

SpecPair == InitPair /\ [][NextPair]_vars

----------------------------------------------------------------------------
(* Independent callers call calculateValuation and validateInputs in any    *)
(* order.  A call is one synchronous function call: it runs to its return   *)
(* before the next call starts, so calls of different callers alternate but *)
(* never overlap.  inputs is the record passed last, as its caller holds it *)
(* after the call.                                                          *)

MaxCalls == 3

Callers == {1, 2}

callRecords ==
  {[testInputs EXCEPT !.annualSales = s, !.ownerCompensation = c] :
     s \in {Num(1000000), Num(1200000)}, c \in {Num(-260000), Num(100000)}}

InitCalls ==
  /\ inputs = testInputs
  /\ pc = "start"
  /\ results = Null
  /\ health = Null
  /\ breakdown = Null
  /\ validationErrors = <<>>
  /\ calls = <<>>
  /\ NoDownload
  /\ NoService

CallerCallsCalculateValuation(caller) ==
  /\ Len(calls) < MaxCalls
  /\ \E in \in callRecords :
       /\ calls' = Append(calls, callOf(caller, "calculateValuation", in))
       /\ inputs' = in
  /\ UNCHANGED <<pc, results, health, breakdown, validationErrors, downloadVars, serviceVars>>

CallerCallsValidateInputs(caller) ==
  /\ Len(calls) < MaxCalls
  /\ \E in \in callRecords :
       /\ calls' = Append(calls, callOf(caller, "validateInputs", in))
       /\ inputs' = in
  /\ UNCHANGED <<pc, results, health, breakdown, validationErrors, downloadVars, serviceVars>>

NextCalls ==
  \E caller \in Callers :
    CallerCallsCalculateValuation(caller) \/ CallerCallsValidateInputs(caller)

SpecCalls == InitCalls /\ [][NextCalls]_vars

----------------------------------------------------------------------------
(* A caller with an input record calls validateInputs once.  Every field    *)
(* takes the two ends of its range and a value just outside either end; the *)
(* labor cost also takes values just above its lower end, with which the    *)
(* four percentages pass 100 while each is inside its own range.            *)

MaxValidateLaborK == 1

validateSalesValues == {Num(99999), Num(100000), Num(50000000), Num(50000001)}

validateFoodValues == {Frac(149, 10), Num(15), Num(60), Frac(601, 10)}

validateLaborValues ==
  {Num(14), Num(15), Num(50), Num(51)} \cup {Frac(150 + k, 10) : k \in 1..MaxValidateLaborK}

validateOccupancyValues == {Num(2), Num(3), Num(20), Num(21)}

validateOtherValues == {Num(4), Num(5), Num(30), Num(31)}

validateOwnerValues == {Num(-1), Num(0), Num(1000000), Num(1000001)}

validateRoiValues == {Num(9), Num(10), Num(50), Num(51)}

validateInputRecords ==
  [annualSales : validateSalesValues, foodCostPercent : validateFoodValues,
   laborCostPercent : validateLaborValues,
   occupancyCostPercent : validateOccupancyValues,
   otherExpensesPercent : validateOtherValues,
   ownerCompensation : validateOwnerValues, desiredROI : validateRoiValues]

InitValidate ==
  /\ inputs \in validateInputRecords
  /\ pc = "start"
  /\ results = Null
  /\ health = Null
  /\ breakdown = Null
  /\ validationErrors = <<>>
  /\ calls = <<>>
  /\ NoDownload
  /\ NoService

\* results holds the record validateInputs returns
CallValidateInputs ==
  /\ pc = "start"
  /\ results' = validateInputs(inputs)
  /\ pc' = "returned"
  /\ UNCHANGED <<inputs, health, breakdown, validationErrors, calls, downloadVars, serviceVars>>

NextValidate == CallValidateInputs

SpecValidate == InitValidate /\ [][NextValidate]_vars

----------------------------------------------------------------------------
(* src/app/calculators/valuation/page.tsx: the calculator component.  Every *)
(* onChange handler replaces the inputs state, the component renders again  *)
(* and the effect that depends on inputs runs.  pc is "effect" from a       *)
(* change of inputs (or the first render) until the effect has run, and     *)
(* "settled" after it.  A text is a sequence of characters.                 *)

\* The first value of the inputs state
initialInputs ==
  [annualSales |-> Num(1200000), foodCostPercent |-> Num(32),
   laborCostPercent |-> Num(30), occupancyCostPercent |-> Num(10),
   otherExpensesPercent |-> Num(15), ownerCompensation |-> Num(100000),
   desiredROI |-> Num(25)]

\* value.replace(/,/g, '')
removeCommas(text) == SelectSeq(text, LAMBDA c : c # ",")

digitOf(c) ==
  CASE c = "0" -> 0 [] c = "1" -> 1 [] c = "2" -> 2 [] c = "3" -> 3 [] c = "4" -> 4
    [] c = "5" -> 5 [] c = "6" -> 6 [] c = "7" -> 7 [] c = "8" -> 8 [] c = "9" -> 9
    [] OTHER -> -1

RECURSIVE digitsValue(_)
digitsValue(text) ==
  IF text = <<>> THEN 0
  ELSE 10 * digitsValue(SubSeq(text, 1, Len(text) - 1)) + digitOf(text[Len(text)])

\* Number(text) for the texts typed here: the empty text is 0, a decimal
\* integer with an optional minus sign is its value, a text with any other
\* character is NaN
Number(text) ==
  LET digits == IF text # <<>> /\ text[1] = "-" THEN Tail(text) ELSE text
  IN IF text = <<>> THEN Num(0)
     ELSE IF digits = <<>> \/ \E i \in 1..Len(digits) : digitOf(digits[i]) < 0 THEN NaN
     ELSE IF text[1] = "-" THEN Num(-digitsValue(digits))
     ELSE Num(digitsValue(digits))

\* What is typed into the annual sales field: 1,200,000  0  12a  and the
\* empty text
annualSalesTexts ==
  {<<"1", ",", "2", "0", "0", ",", "0", "0", "0">>, <<"0">>, <<"1", "2", "a">>, <<>>}

\* What is typed into the owner compensation field: 100,000  -260000  1o
ownerCompensationTexts ==
  {<<"1", "0", "0", ",", "0", "0", "0">>, <<"-", "2", "6", "0", "0", "0", "0">>,
   <<"1", "o">>}

\* Positions of the range sliders, each between the min and max of its slider
foodSlider == {Num(32), Num(60)}

laborSlider == {Num(30), Num(50)}

occupancySlider == {Num(10), Num(20)}

otherSlider == {Num(15), Num(30)}

roiSlider == {Num(25), Num(50)}

InitUI ==
  /\ inputs = initialInputs
  /\ results = Null
  /\ breakdown = Null
  /\ validationErrors = <<>>
  /\ pc = "effect"
  /\ health = Null
  /\ calls = <<>>
  /\ NoDownload
  /\ NoService

\* Mutant: the effect returns after setValidationErrors when there are errors
RunEffect_StopsOnErrors ==
  /\ pc = "effect"
  /\ LET validation == validateInputs(inputs)
         result == calculateValuation(inputs)
     IN /\ validationErrors' = validation.errors
        /\ IF validation.valid
           THEN results' = result /\ breakdown' = result.breakdown
           ELSE UNCHANGED <<results, breakdown>>
  /\ pc' = "settled"
  /\ UNCHANGED <<inputs, health, calls, downloadVars, serviceVars>>

\* useEffect(..., [inputs])
RunEffect ==
  /\ pc = "effect"
  /\ LET validation == validateInputs(inputs)
         result == calculateValuation(inputs)
     IN /\ validationErrors' = validation.errors
        /\ results' = result
        /\ breakdown' = result.breakdown
  /\ pc' = "settled"
  /\ UNCHANGED <<inputs, health, calls, downloadVars, serviceVars>>

\* setInputs(next): the state is replaced and the effect is due again
setInputs(next) ==
  /\ inputs' = next
  /\ pc' = "effect"
  /\ UNCHANGED <<results, breakdown, validationErrors, health, calls, downloadVars, serviceVars>>

OnChangeAnnualSales ==
  \E text \in annualSalesTexts :
    LET value == removeCommas(text)
    IN /\ ~IsNaN(Number(value))
       /\ setInputs([inputs EXCEPT !.annualSales = Number(value)])

OnChangeOwnerCompensation ==
  \E text \in ownerCompensationTexts :
    LET value == removeCommas(text)
    IN /\ ~IsNaN(Number(value))
       /\ setInputs([inputs EXCEPT !.ownerCompensation = Number(value)])

OnChangeFoodCostPercent ==
  \E v \in foodSlider : setInputs([inputs EXCEPT !.foodCostPercent = v])

OnChangeLaborCostPercent ==
  \E v \in laborSlider : setInputs([inputs EXCEPT !.laborCostPercent = v])

OnChangeOccupancyCostPercent ==
  \E v \in occupancySlider : setInputs([inputs EXCEPT !.occupancyCostPercent = v])

OnChangeOtherExpensesPercent ==
  \E v \in otherSlider : setInputs([inputs EXCEPT !.otherExpensesPercent = v])

OnChangeDesiredROI ==
  \E v \in roiSlider : setInputs([inputs EXCEPT !.desiredROI = v])

NextUI ==
  \/ RunEffect
  \/ OnChangeAnnualSales
  \/ OnChangeOwnerCompensation
  \/ OnChangeFoodCostPercent
  \/ OnChangeLaborCostPercent
  \/ OnChangeOccupancyCostPercent
  \/ OnChangeOtherExpensesPercent
  \/ OnChangeDesiredROI

SpecUI == InitUI /\ [][NextUI]_vars

----------------------------------------------------------------------------
(* calculateHealthScore called with profit margins in steps of 0.1 from -2  *)
(* up, and with cash flows in steps of 1000 from -50000 up, so that every   *)
(* tier of the two factors is entered at its ends and inside                *)

MaxTierMarginK == 200

MaxTierCashFlowK == 620

tierProfitMargins == {Frac(k - 20, 10) : k \in 0..MaxTierMarginK}

tierCashFlows == {Num(1000 * k - 50000) : k \in 0..MaxTierCashFlowK}

tierInputRecords ==
  {[testInputs EXCEPT !.annualSales = s] : s \in {Num(1000000), Num(1200000)}}

InitTiers ==
  /\ inputs \in tierInputRecords
  /\ pc = "start"
  /\ results = Null
  /\ health = Null
  /\ breakdown = Null
  /\ validationErrors = <<>>
  /\ calls = <<>>
  /\ NoDownload
  /\ NoService

CallWithProfitMargin ==
  /\ pc = "start"
  /\ \E profitMargin \in tierProfitMargins :
       health' = healthScoreLocals(inputs, profitMargin, Num(0))
  /\ pc' = "returned"
  /\ UNCHANGED <<inputs, results, breakdown, validationErrors, calls, downloadVars, serviceVars>>

CallWithCashFlow ==
  /\ pc = "start"
  /\ \E cashFlow \in tierCashFlows :
       health' = healthScoreLocals(inputs, Num(0), cashFlow)
  /\ pc' = "returned"
  /\ UNCHANGED <<inputs, results, breakdown, validationErrors, calls, downloadVars, serviceVars>>

NextTiers == CallWithProfitMargin \/ CallWithCashFlow

SpecTiers == InitTiers /\ [][NextTiers]_vars

----------------------------------------------------------------------------
(* calculateHealthScore called with one of the three cost percentages in    *)
(* steps of 0.1 across all its tiers, the other two at their reference      *)
(* values                                                                   *)

MaxFactorFoodK == 340

MaxFactorLaborK == 340

MaxFactorOccupancyK == 210

factorFoodValues == {Frac(130 + k, 10) : k \in 0..MaxFactorFoodK}

factorLaborValues == {Frac(130 + k, 10) : k \in 0..MaxFactorLaborK}

factorOccupancyValues == {Frac(10 + k, 10) : k \in 0..MaxFactorOccupancyK}

factorInputRecords ==
  {[testInputs EXCEPT !.foodCostPercent = f] : f \in factorFoodValues}
  \cup {[testInputs EXCEPT !.laborCostPercent = l] : l \in factorLaborValues}
  \cup {[testInputs EXCEPT !.occupancyCostPercent = o] : o \in factorOccupancyValues}

InitFactors ==
  /\ inputs \in factorInputRecords
  /\ pc = "start"
  /\ results = Null
  /\ health = Null
  /\ breakdown = Null
  /\ validationErrors = <<>>
  /\ calls = <<>>
  /\ NoDownload
  /\ NoService

CallWithCostPercents ==
  /\ pc = "start"
  /\ health' = healthScoreLocals(inputs, Num(0), Num(0))
  /\ pc' = "returned"
  /\ UNCHANGED <<inputs, results, breakdown, validationErrors, calls, downloadVars, serviceVars>>

NextFactors == CallWithCostPercents

SpecFactors == InitFactors /\ [][NextFactors]_vars

----------------------------------------------------------------------------
(* The effect of the calculator component run once on a record, valid or    *)
(* not: it validates the record and calculates from it, whatever the        *)
(* validation says.  Each field takes both ends of its range, a value       *)
(* inside and a value outside; the occupancy cost also takes whole steps    *)
(* inside its range.                                                        *)

MaxSensibleOccupancyK == 1

sensibleSalesValues == {Num(50000), Num(100000), Num(1200000), Num(50000000)}

sensibleFoodValues == {Num(15), Num(32), Num(60), Num(65)}

sensibleLaborValues == {Num(15), Num(20), Num(50), Num(55)}

sensibleOccupancyValues ==
  {Num(3), Num(20)} \cup {Num(10 + k) : k \in 0..MaxSensibleOccupancyK}

sensibleOtherValues == {Num(5), Num(10), Num(30)}

sensibleOwnerValues == {Num(-50000), Num(0), Num(1000000)}

sensibleRoiValues == {Num(0), Num(10), Num(50)}

sensibleInputRecords ==
  [annualSales : sensibleSalesValues, foodCostPercent : sensibleFoodValues,
   laborCostPercent : sensibleLaborValues,
   occupancyCostPercent : sensibleOccupancyValues,
   otherExpensesPercent : sensibleOtherValues,
   ownerCompensation : sensibleOwnerValues, desiredROI : sensibleRoiValues]

InitSensible ==
  /\ inputs \in sensibleInputRecords
  /\ pc = "effect"
  /\ results = Null
  /\ health = Null
  /\ breakdown = Null
  /\ validationErrors = <<>>
  /\ calls = <<>>
  /\ NoDownload
  /\ NoService

NextSensible == RunEffect

SpecSensible == InitSensible /\ [][NextSensible]_vars

----------------------------------------------------------------------------
(* src/app/calculators/valuation/page.tsx: handleDownloadPDF.  The button   *)
(* is disabled while isGeneratingPDF, the keyboard shortcut is not, so a    *)
(* download can be asked for while another is in flight.  requests holds    *)
(* the requests sent to /api/generate-pdf; each is "fetching" until fetch   *)
(* settles, "reading" while response.text() is awaited, and "done" once the *)
(* finally block has run.                                                   *)

MaxDownloads == 2

InitPDF ==
  /\ inputs = initialInputs
  /\ results = Null
  /\ breakdown = Null
  /\ validationErrors = <<>>
  /\ pc = "effect"
  /\ health = Null
  /\ calls = <<>>
  /\ NoDownload
  /\ NoService

\* fetch("/api/generate-pdf", ...) with the body of lines 205-209
generatePdfRequest ==
  [url |-> "/api/generate-pdf", method |-> "POST",
   body |-> [inputs |-> inputs, results |-> [results EXCEPT !.breakdown = breakdown]],
   state |-> "fetching"]

\* Mutant: the request is sent whatever results and validationErrors hold
HandleDownloadPDF_Unguarded ==
  /\ Len(requests) < MaxDownloads
  /\ isGeneratingPDF' = TRUE
  /\ requests' = Append(requests,
       [url |-> "/api/generate-pdf", method |-> "POST",
        body |-> [inputs |-> inputs, results |-> results], state |-> "fetching"])
  /\ UNCHANGED <<inputs, pc, results, health, breakdown, validationErrors, calls,
                 toast, access_tokens, env, now>>

\* handleDownloadPDF up to its first await
HandleDownloadPDF ==
  IF results = Null \/ Len(validationErrors) > 0
  THEN /\ toast' = [title |-> "Cannot Generate PDF", variant |-> "destructive"]
       /\ UNCHANGED <<inputs, pc, results, health, breakdown, validationErrors, calls,
                      isGeneratingPDF, serviceVars>>
  ELSE /\ Len(requests) < MaxDownloads
       /\ isGeneratingPDF' = TRUE
       /\ requests' = Append(requests, generatePdfRequest)
       /\ UNCHANGED <<inputs, pc, results, health, breakdown, validationErrors, calls,
                      toast, access_tokens, env, now>>

Fetching(i) == i \in 1..Len(requests) /\ requests[i].state = "fetching"

Reading(i) == i \in 1..Len(requests) /\ requests[i].state = "reading"

\* finally { setIsGeneratingPDF(false) }
Finally(i) ==
  /\ isGeneratingPDF' = FALSE
  /\ requests' = [requests EXCEPT ![i].state = "done"]
  /\ UNCHANGED <<inputs, pc, results, health, breakdown, validationErrors, calls,
                 access_tokens, env, now>>

\* fetch resolves with response.ok: response.text() is awaited
ResponseOk(i) ==
  /\ Fetching(i)
  /\ requests' = [requests EXCEPT ![i].state = "reading"]
  /\ UNCHANGED <<inputs, pc, results, health, breakdown, validationErrors, calls,
                 downloadVars, access_tokens, env, now>>

\* fetch resolves with a response that is not ok: nothing but the finally
\* block runs
ResponseNotOk(i) ==
  /\ Fetching(i)
  /\ Finally(i)
  /\ UNCHANGED toast

\* fetch rejects: the catch block, then the finally block
FetchRejects(i) ==
  /\ Fetching(i)
  /\ Finally(i)
  /\ toast' = [title |-> "Error", variant |-> "destructive"]

\* response.text() resolves: the report is printed from an iframe if its
\* document is there
TextResolves(i) ==
  /\ Reading(i)
  /\ Finally(i)
  /\ \E iframeDoc \in BOOLEAN :
       IF iframeDoc
       THEN toast' = [title |-> "PDF Report Ready", variant |-> "default"]
       ELSE UNCHANGED toast

\* response.text() rejects: the catch block, then the finally block
TextRejects(i) ==
  /\ Reading(i)
  /\ Finally(i)
  /\ toast' = [title |-> "Error", variant |-> "destructive"]

\* A promise of a download settles
SettleDownload ==
  \E i \in 1..MaxDownloads :
    \/ ResponseOk(i)
    \/ ResponseNotOk(i)
    \/ FetchRejects(i)
    \/ TextResolves(i)
    \/ TextRejects(i)

NextPDF ==
  \/ RunEffect
  \/ OnChangeAnnualSales
  \/ HandleDownloadPDF
  \/ SettleDownload

\* Every promise settles: fetch and response.text() resolve or reject
SpecPDF == InitPDF /\ [][NextPDF]_vars /\ WF_vars(SettleDownload)

----------------------------------------------------------------------------
(* src/app/api/activate-access/route.ts: POST, run by any number of         *)
(* requests at once.  A request is a record of requests; its pc is "start"  *)
(* when it has arrived, "lookup" while the select is awaited, "insert"      *)
(* while the insert is awaited and "done" once it has a response.  The      *)
(* table is access_tokens of src/supabase-migration.sql.  An email is a     *)
(* sequence of characters, any other text a string; a field that is missing *)
(* and an empty text are both falsy and are not told apart by the routes,   *)
(* so both are the empty text.                                              *)

MaxActivations == 2

\* !value for a string
Falsy(value) == value = ""

\* !email for a sequence of characters
NoEmail(email) == email = <<>>

\* calculatorType || 'valuation'
orValuation(calculatorType) ==
  IF Falsy(calculatorType) THEN "valuation" ELSE calculatorType

\* NextResponse.json(body, { status })
jsonResponse(status, body) == [status |-> status, body |-> body]

activateBodies ==
  {[email |-> <<"a", "@", "b", ".", "c">>, paymentIntentId |-> "pi_1", calculatorType |-> ""],
   [email |-> <<"a", "@", "b", ".", "c">>, paymentIntentId |-> "pi_2", calculatorType |-> "viability"],
   [email |-> <<>>, paymentIntentId |-> "pi_1", calculatorType |-> ""],
   [email |-> <<"a", "@", "b", ".", "c">>, paymentIntentId |-> "", calculatorType |-> ""],
   [malformed |-> TRUE]}

serviceEnvironments ==
  {[SUPABASE_SERVICE_ROLE_KEY |-> "service-role-key"],
   [SUPABASE_SERVICE_ROLE_KEY |-> ""]}

InitActivate ==
  /\ inputs = initialInputs
  /\ results = Null
  /\ breakdown = Null
  /\ validationErrors = <<>>
  /\ pc = "start"
  /\ health = Null
  /\ calls = <<>>
  /\ NoDownload
  /\ requests = <<>>
  /\ access_tokens = {}
  /\ env \in serviceEnvironments
  /\ now = 0

\* Only the requests, and the table if the action says so, change
OnlyRequests ==
  UNCHANGED <<inputs, pc, results, health, breakdown, validationErrors, calls,
              downloadVars, env, now>>

At(i, where) == i \in 1..Len(requests) /\ requests[i].pc = where

\* return NextResponse.json(...)
respond(i, response) ==
  requests' = [requests EXCEPT ![i].pc = "done", ![i].response = response]

\* A POST arrives
PostActivateAccess ==
  /\ Len(requests) < MaxActivations
  /\ \E body \in activateBodies :
       requests' = Append(requests,
         [url |-> "/api/activate-access", body |-> body, pc |-> "start",
          response |-> Null])
  /\ OnlyRequests
  /\ UNCHANGED access_tokens

\* Lines 6-37: from req.json() to the select being sent
ActivateStarts(i) ==
  /\ At(i, "start")
  /\ requests[i].url = "/api/activate-access"
  /\ LET body == requests[i].body
     IN IF body = [malformed |-> TRUE]
        THEN respond(i, jsonResponse(500, [error |-> "Failed to activate access"]))
        ELSE IF NoEmail(body.email) \/ Falsy(body.paymentIntentId)
        THEN respond(i, jsonResponse(400, [error |-> "Missing required fields"]))
        ELSE IF Falsy(env.SUPABASE_SERVICE_ROLE_KEY)
        THEN respond(i, jsonResponse(500, [error |-> "Server configuration error"]))
        ELSE requests' = [requests EXCEPT ![i].pc = "lookup"]
  /\ OnlyRequests
  /\ UNCHANGED access_tokens

\* .from('access_tokens').select('id').eq('stripe_payment_intent_id', id)
tokensOfPayment(paymentIntentId) ==
  {token \in access_tokens : token.stripe_payment_intent_id = paymentIntentId}

\* .single(): the row if there is exactly one, otherwise no data
single(rows) ==
  IF Cardinality(rows) = 1 THEN CHOOSE row \in rows : TRUE ELSE Null

\* Lines 33-44: the select is answered
ActivateLooksUp(i) ==
  /\ At(i, "lookup")
  /\ LET existingToken == single(tokensOfPayment(requests[i].body.paymentIntentId))
     IN IF existingToken # Null
        THEN respond(i, jsonResponse(200,
               [success |-> TRUE, message |-> "Access already activated"]))
        ELSE requests' = [requests EXCEPT ![i].pc = "insert"]
  /\ OnlyRequests
  /\ UNCHANGED access_tokens

\* The row of lines 53-65; the id is generated by the table
newToken(i) ==
  [id |-> i,
   email |-> requests[i].body.email,
   calculator_type |-> orValuation(requests[i].body.calculatorType),
   stripe_payment_intent_id |-> requests[i].body.paymentIntentId,
   amount_paid |-> 1000,
   currency |-> "usd",
   expires_at |-> now + 30,
   is_active |-> TRUE]

\* Mutant: stripe_payment_intent_id is not UNIQUE
ActivateInserts_NotUnique(i) ==
  /\ At(i, "insert")
  /\ access_tokens' = access_tokens \cup {newToken(i)}
  /\ respond(i, jsonResponse(200,
       [success |-> TRUE, accessToken |-> newToken(i),
        message |-> "Access successfully activated for 30 days"]))
  /\ OnlyRequests

\* Lines 51-93: the insert is answered; the table refuses a second row with
\* the same stripe_payment_intent_id
ActivateInserts(i) ==
  /\ At(i, "insert")
  /\ IF tokensOfPayment(requests[i].body.paymentIntentId) # {}
     THEN /\ respond(i, jsonResponse(500, [error |-> "Failed to activate access"]))
          /\ UNCHANGED access_tokens
     ELSE /\ access_tokens' = access_tokens \cup {newToken(i)}
          /\ respond(i, jsonResponse(200,
               [success |-> TRUE, accessToken |-> newToken(i),
                message |-> "Access successfully activated for 30 days"]))
  /\ OnlyRequests

NextActivate ==
  \/ PostActivateAccess
  \/ \E i \in 1..MaxActivations : ActivateStarts(i)
  \/ \E i \in 1..MaxActivations : ActivateLooksUp(i)
  \/ \E i \in 1..MaxActivations : ActivateInserts(i)

SpecActivate == InitActivate /\ [][NextActivate]_vars

----------------------------------------------------------------------------
(* src/app/api/check-access/route.ts: POST, and its client checkAccess of   *)
(* the access-control library.  A request that checkAccess sent has client  *)
(* "waiting" until checkAccess returns; a POST from anywhere else has       *)
(* client "none".  calls holds the calls of checkAccess that have returned. *)
(* Time is counted in days.                                                 *)

MaxChecks == 1

CheckNow == 40

whitespace == {" "}

RECURSIVE trimStart(_)
trimStart(text) ==
  IF text # <<>> /\ Head(text) \in whitespace THEN trimStart(Tail(text)) ELSE text

RECURSIVE trimEnd(_)
trimEnd(text) ==
  IF text # <<>> /\ text[Len(text)] \in whitespace
  THEN trimEnd(SubSeq(text, 1, Len(text) - 1))
  ELSE text

\* String.prototype.trim
trim(text) == trimEnd(trimStart(text))

\* String.prototype.toLowerCase, on the letters the emails below are made of
toLowerCase(text) ==
  [k \in 1..Len(text) |->
     CASE text[k] = "A" -> "a"
       [] text[k] = "B" -> "b"
       [] text[k] = "C" -> "c"
       [] OTHER -> text[k]]

\* /^[^\s@]+@[^\s@]+\.[^\s@]+$/.test(email)
isValidEmail(email) ==
  \E at \in 1..Len(email), dot \in 1..Len(email) :
    /\ at > 1
    /\ email[at] = "@"
    /\ dot > at + 1
    /\ dot < Len(email)
    /\ email[dot] = "."
    /\ \A k \in 1..Len(email) :
         k # at => (email[k] # "@" /\ email[k] \notin whitespace)

\* Mutant: the email is trimmed but keeps its case
sanitizeEmail_KeepsCase(email) ==
  LET trimmed == trim(email)
  IN IF ~isValidEmail(trimmed) THEN Null ELSE trimmed

\* sanitizeEmail; Null stands for the Error it throws
sanitizeEmail(email) ==
  LET trimmed == toLowerCase(trim(email))
  IN IF ~isValidEmail(trimmed) THEN Null ELSE trimmed

\* validateAndSanitizeEmail: null for no email and for the Error caught
validateAndSanitizeEmail(email) ==
  IF NoEmail(email) THEN Null ELSE sanitizeEmail(email)

\* a@b.c, the same with a capital and spaces around it, and texts that are
\* not emails: no @, no dot after the @, a space inside, none
checkEmails ==
  {<<"a", "@", "b", ".", "c">>,
   <<" ", "A", "@", "b", ".", "c", " ">>,
   <<"a", "b", ".", "c">>,
   <<"a", "@", "b", "c">>,
   <<"a", " ", "@", "b", ".", "c">>,
   <<>>}

checkCalculatorTypes == {"", "viability"}

checkBodies ==
  [email : checkEmails, calculatorType : checkCalculatorTypes]
  \cup {[malformed |-> TRUE]}

tokenOf(id, email, calculator_type, expires_at, is_active) ==
  [id |-> id, email |-> email, calculator_type |-> calculator_type,
   stripe_payment_intent_id |-> "pi_1", amount_paid |-> 1000, currency |-> "usd",
   expires_at |-> expires_at, is_active |-> is_active]

\* What the table may hold: a token that is good, one that expires today, one
\* that is expired, one that is not active, one for another calculator, and
\* one whose email was stored with a capital letter
checkTables ==
  LET email == <<"a", "@", "b", ".", "c">>
  IN {{},
      {tokenOf(1, email, "valuation", CheckNow + 10, TRUE)},
      {tokenOf(1, email, "valuation", CheckNow, TRUE)},
      {tokenOf(1, email, "valuation", CheckNow - 1, TRUE)},
      {tokenOf(1, email, "valuation", CheckNow + 10, FALSE)},
      {tokenOf(1, email, "viability", CheckNow + 10, TRUE)},
      {tokenOf(1, <<"A", "@", "b", ".", "c">>, "valuation", CheckNow + 10, TRUE)},
      {tokenOf(1, email, "valuation", CheckNow - 1, TRUE),
       tokenOf(2, email, "valuation", CheckNow + 30, TRUE)}}

InitCheck ==
  /\ inputs = initialInputs
  /\ results = Null
  /\ breakdown = Null
  /\ validationErrors = <<>>
  /\ pc = "start"
  /\ health = Null
  /\ calls = <<>>
  /\ NoDownload
  /\ requests = <<>>
  /\ access_tokens \in checkTables
  /\ env \in serviceEnvironments
  /\ now = CheckNow

\* Only the requests, and the calls if the action says so, change
OnlyCheckRequests ==
  UNCHANGED <<inputs, pc, results, health, breakdown, validationErrors,
              downloadVars, access_tokens, env, now>>

noAccess == [hasAccess |-> FALSE, daysRemaining |-> 0]

checkRequest(body, client) ==
  [url |-> "/api/check-access", body |-> body, pc |-> "start", email |-> Null,
   error |-> FALSE, response |-> Null, client |-> client]

\* checkAccess returns
returnFrom(email, calculatorType, fetched, ret) ==
  calls' = Append(calls,
    [fn |-> "checkAccess", args |-> [email |-> email, calculatorType |-> calculatorType],
     fetched |-> fetched, ret |-> ret])

\* checkAccess(email, calculatorType) up to its await: no request for no
\* email; calculatorType is 'valuation' if not given
CheckAccess ==
  /\ Len(requests) < MaxChecks
  /\ Len(calls) < MaxChecks
  /\ \E email \in checkEmails, calculatorType \in checkCalculatorTypes :
       IF NoEmail(email)
       THEN /\ returnFrom(email, calculatorType, "nothing", noAccess)
            /\ UNCHANGED requests
       ELSE /\ requests' = Append(requests,
                 checkRequest([email |-> email,
                               calculatorType |-> orValuation(calculatorType)],
                              "waiting"))
            /\ UNCHANGED calls
  /\ OnlyCheckRequests

\* A POST that does not come from checkAccess
PostCheckAccess ==
  /\ Len(requests) < MaxChecks
  /\ \E body \in checkBodies :
       requests' = Append(requests, checkRequest(body, "none"))
  /\ UNCHANGED calls
  /\ OnlyCheckRequests

\* Lines 13-37 and 83-89: from req.json() to the query being sent
CheckStarts(i) ==
  /\ At(i, "start")
  /\ requests[i].url = "/api/check-access"
  /\ LET body == requests[i].body
         email == IF body = [malformed |-> TRUE] THEN Null
                  ELSE validateAndSanitizeEmail(body.email)
     IN IF body = [malformed |-> TRUE]
        THEN respond(i, jsonResponse(200, noAccess))
        ELSE IF email = Null
        THEN respond(i, jsonResponse(200, noAccess))
        ELSE IF Falsy(env.SUPABASE_SERVICE_ROLE_KEY)
        THEN respond(i, jsonResponse(200, noAccess))
        ELSE requests' = [requests EXCEPT ![i].pc = "query", ![i].email = email]
  /\ UNCHANGED calls
  /\ OnlyCheckRequests

\* The rows of lines 40-46
activeTokens(email, calculatorType) ==
  {token \in access_tokens :
     /\ token.email = email
     /\ token.calculator_type = orValuation(calculatorType)
     /\ token.is_active = TRUE
     /\ token.expires_at >= now}

\* .order('expires_at', { ascending: false }).limit(1)
latestOf(tokens) ==
  CHOOSE token \in tokens : \A other \in tokens : other.expires_at <= token.expires_at

\* Lines 40-82: the query is answered, with rows or with an error
CheckQueryAnswered(i) ==
  /\ At(i, "query")
  /\ \E error \in BOOLEAN :
       LET tokens == activeTokens(requests[i].email, requests[i].body.calculatorType)
       IN IF error
          THEN requests' = [requests EXCEPT ![i].pc = "done", ![i].error = TRUE,
                              ![i].response = jsonResponse(200, noAccess)]
          ELSE IF tokens # {}
          THEN LET token == latestOf(tokens)
                   daysRemaining == token.expires_at - now
               IN respond(i, jsonResponse(200,
                    [hasAccess |-> TRUE, daysRemaining |-> daysRemaining,
                     accessToken |-> [id |-> token.id, email |-> token.email,
                                      calculator_type |-> token.calculator_type,
                                      expires_at |-> token.expires_at,
                                      is_active |-> token.is_active,
                                      days_remaining |-> daysRemaining]]))
          ELSE respond(i, jsonResponse(200, noAccess))
  /\ UNCHANGED calls
  /\ OnlyCheckRequests

Waiting(i) == i \in 1..Len(requests) /\ requests[i].client = "waiting"

\* checkAccess returns with what its fetch gave
checkAccessReturns(i, fetched, ret) ==
  /\ returnFrom(requests[i].body.email, requests[i].body.calculatorType, fetched, ret)
  /\ requests' = [requests EXCEPT ![i].client = "returned"]
  /\ OnlyCheckRequests

\* fetch rejects: the catch block of checkAccess
CheckAccessFetchRejects(i) ==
  /\ Waiting(i)
  /\ checkAccessReturns(i, "rejected", noAccess)

\* fetch resolves with a response that is not ok, which the route itself
\* never sends
CheckAccessNotOk(i) ==
  /\ Waiting(i)
  /\ checkAccessReturns(i, "not ok", noAccess)

\* fetch resolves with the response of the route
CheckAccessGetsResponse(i) ==
  /\ Waiting(i)
  /\ At(i, "done")
  /\ LET data == requests[i].response.body
     IN checkAccessReturns(i, "ok",
          IF data.hasAccess
          THEN [hasAccess |-> data.hasAccess, daysRemaining |-> data.daysRemaining,
                accessToken |-> data.accessToken]
          ELSE [hasAccess |-> data.hasAccess, daysRemaining |-> data.daysRemaining])

NextCheck ==
  \/ CheckAccess
  \/ PostCheckAccess
  \/ \E i \in 1..MaxChecks : CheckStarts(i)
  \/ \E i \in 1..MaxChecks : CheckQueryAnswered(i)
  \/ \E i \in 1..MaxChecks : CheckAccessFetchRejects(i)
  \/ \E i \in 1..MaxChecks : CheckAccessNotOk(i)
  \/ \E i \in 1..MaxChecks : CheckAccessGetsResponse(i)

SpecCheck == InitCheck /\ [][NextCheck]_vars

----------------------------------------------------------------------------
(* Properties *)

Returned == pc = "returned"

Within(x, target, tolerance) == Le(MathAbs(Sub(x, Num(target))), Num(tolerance))

C2_RoundedValueIsExpected ==
  (Returned /\ inputs = testInputs) => scriptIsCorrect(results.estimatedValue)

\* What the code yields instead: 1624000.72, which rounds to 1624001
C2_RoundedValueIsOneOff ==
  (Returned /\ inputs = testInputs) =>
    /\ Eq(results.estimatedValue, Frac(162400072, 100))
    /\ Eq(MathRound(results.estimatedValue), Num(1624001))

\* C3: the outputs satisfy the formulas exactly: grossProfit is
\* sales * (1 - food/100), foodCost is sales * food/100, each of laborCost,
\* occupancyCost and otherExpenses is sales * pct/100 * 0.772727, the total of
\* the operating expenses is the sum of these three without the food cost,
\* operatingProfit is grossProfit less that total, cashFlow is operatingProfit
\* plus the owner's compensation and, for positive sales, profitMargin is
\* operatingProfit / sales * 100.
C3_Adjusted(amount, percent) ==
  Eq(Mul(amount, Num(100)),
     Mul(Mul(inputs.annualSales, percent), Frac(772727, 1000000)))

C3_Formulas ==
  Returned =>
    LET b == results.breakdown
    IN /\ Eq(Mul(results.grossProfit, Num(100)),
             Mul(inputs.annualSales, Sub(Num(100), inputs.foodCostPercent)))
       /\ Eq(Mul(b.foodCost, Num(100)),
             Mul(inputs.annualSales, inputs.foodCostPercent))
       /\ C3_Adjusted(b.laborCost, inputs.laborCostPercent)
       /\ C3_Adjusted(b.occupancyCost, inputs.occupancyCostPercent)
       /\ C3_Adjusted(b.otherExpenses, inputs.otherExpensesPercent)
       /\ Eq(b.totalOperatingExpenses,
             Add(b.otherExpenses, Add(b.occupancyCost, b.laborCost)))
       /\ Eq(Add(results.operatingProfit, b.totalOperatingExpenses),
             results.grossProfit)
       /\ Eq(Sub(results.cashFlow, inputs.ownerCompensation),
             results.operatingProfit)
       /\ Gt(inputs.annualSales, Num(0)) =>
             Eq(Mul(results.profitMargin, inputs.annualSales),
                Mul(results.operatingProfit, Num(100)))

C3_Witness ==
  /\ Returned
  /\ Gt(inputs.annualSales, Num(0))
  /\ Gt(inputs.foodCostPercent, Num(0))
  /\ Gt(results.breakdown.laborCost, Num(0))
  /\ Gt(results.breakdown.occupancyCost, Num(0))
  /\ Gt(results.breakdown.otherExpenses, Num(0))
  /\ Gt(inputs.ownerCompensation, Num(0))
  /\ ~Eq(results.profitMargin, Num(0))

\* C4: desiredROIValue equals estimatedValue; estimatedValue is
\* cashFlow / (desiredROI/100) for a positive desiredROI, and for a zero or
\* negative desiredROI both are 0, with no division.
C4_EstimatedValue ==
  Returned =>
    /\ results.desiredROIValue = results.estimatedValue
    /\ IF Gt(inputs.desiredROI, Num(0))
       THEN Eq(Mul(results.estimatedValue, inputs.desiredROI),
               Mul(results.cashFlow, Num(100)))
       ELSE Eq(results.estimatedValue, Num(0))

C4_Witness ==
  /\ Returned
  /\ Eq(inputs.desiredROI, Num(0))
  /\ ~Eq(results.cashFlow, Num(0))
  /\ Eq(results.estimatedValue, Num(0))
  /\ Eq(results.desiredROIValue, Num(0))

\* C5: for annualSales = 0 the profit margin is 0 and every quotient whose
\* divisor is annualSales, the cash-flow margin of the health score included,
\* is guarded and yields 0, never NaN or Infinity.
C5_GuardedDivisions ==
  (Returned /\ Eq(inputs.annualSales, Num(0))) =>
    /\ Eq(results.profitMargin, Num(0))
    /\ Eq(health.cashFlowMargin, Num(0))

\* What the code does: the profit margin is guarded, the cash-flow margin is
\* cashFlow / 0 * 100, that is Infinity, -Infinity or NaN by the sign of the
\* owner's compensation
C5_OnlyProfitMarginGuarded ==
  (Returned /\ Eq(inputs.annualSales, Num(0))) =>
    /\ Eq(results.profitMargin, Num(0))
    /\ ~IsFinite(health.cashFlowMargin)
    /\ health.cashFlowMargin.n = Sgn(inputs.ownerCompensation.n)

\* C6: calculateValuation is total: for every input record, zero sales, zero
\* ROI and negative values included, every numeric field returned is a finite
\* number and healthStatus is one of the four tags.
C6_NumericFields(r) ==
  {r.grossProfit, r.operatingProfit, r.cashFlow, r.estimatedValue,
   r.desiredROIValue, r.profitMargin, r.breakdown.foodCost,
   r.breakdown.laborCost, r.breakdown.occupancyCost,
   r.breakdown.otherExpenses, r.breakdown.totalOperatingExpenses}

C6_Total ==
  Returned =>
    /\ \A x \in C6_NumericFields(results) : IsFinite(x) /\ x.d > 0
    /\ results.healthStatus \in {"Excellent", "Good", "Fair", "Poor"}

C6_Witness ==
  /\ Returned
  /\ Eq(inputs.annualSales, Num(0))
  /\ Eq(inputs.desiredROI, Num(0))
  /\ Lt(inputs.ownerCompensation, Num(0))
  /\ Lt(inputs.foodCostPercent, Num(0))
  /\ \A x \in C6_NumericFields(results) : IsFinite(x)

\* C7: calculateHealthScore returns a value in [0, 120] that is the sum of the
\* five sub-scores rounded to one decimal place, a tie going up, and each
\* sub-score is within its bounds: profit 0..20, food 0..15, labor 0..15,
\* occupancy 0..10, cash flow 0..60.
C7_Between(x, lo, hi) == Ge(x, Num(lo)) /\ Le(x, Num(hi))

C7_HealthScore ==
  Returned =>
    LET sum == Add(health.cashFlowScore, Add(health.occupancyScore,
                 Add(health.laborScore, Add(health.foodScore, health.profitScore))))
        tenths == Mul(health.score, Num(10))
        exact == Mul(sum, Num(10))
    IN /\ C7_Between(health.score, 0, 120)
       /\ IsFinite(tenths) /\ tenths.d = 1
       /\ Lt(Sub(exact, Frac(1, 2)), tenths)
       /\ Le(tenths, Add(exact, Frac(1, 2)))
       /\ C7_Between(health.profitScore, 0, 20)
       /\ C7_Between(health.foodScore, 0, 15)
       /\ C7_Between(health.laborScore, 0, 15)
       /\ C7_Between(health.occupancyScore, 0, 10)
       /\ C7_Between(health.cashFlowScore, 0, 60)

\* A call whose five sub-scores are all strictly inside their bounds and whose
\* sum is rounded down to the score
C7_Witness ==
  /\ Returned
  /\ results = Null
  /\ \A x \in {health.profitScore, health.foodScore, health.laborScore,
                health.occupancyScore, health.cashFlowScore} : Gt(x, Num(0))
  /\ Lt(health.profitScore, Num(20))
  /\ Lt(health.foodScore, Num(15))
  /\ Lt(health.laborScore, Num(15))
  /\ Lt(health.occupancyScore, Num(10))
  /\ Lt(health.cashFlowScore, Num(60))
  /\ Lt(health.score, health.totalScore)

C8_Boundary70 == Returned /\ Eq(health.score, Num(70)) /\ results.healthStatus = "Good"

C8_Boundary55 == Returned /\ Eq(health.score, Num(55)) /\ results.healthStatus = "Fair"

\* C9: the health status returned by calculateValuation is the one the README
\* and the test script derive from the operating profit margin: Excellent iff
\* margin >= 15, Good iff 10 <= margin < 15, Fair iff 5 <= margin < 10, Poor
\* iff margin < 5.
C9_StatusFromMargin ==
  Returned => results.healthStatus = scriptHealthStatus(results.profitMargin)

\* An input record inside every validation range on which the two disagree
C9_FailingInput ==
  [annualSales |-> Num(1200000), foodCostPercent |-> Num(39),
   laborCostPercent |-> Num(39), occupancyCostPercent |-> Num(8),
   otherExpensesPercent |-> Num(5), ownerCompensation |-> Num(0),
   desiredROI |-> Num(25)]

C9_Divergence ==
  (Returned /\ inputs = C9_FailingInput) =>
    /\ Ge(results.profitMargin, Num(15))
    /\ scriptHealthStatus(results.profitMargin) = "Excellent"
    /\ Eq(health.score, Frac(834, 10))
    /\ results.healthStatus = "Good"

\* C10: at the ideal benchmark midpoints (food 30, labor 30 or 28.5, occupancy
\* 8, other 15), with positive sales and a cash flow of at least half the
\* sales, the health score is exactly 120; no input scores above 120.
C10_IdealMidpoints ==
  /\ inputs.foodCostPercent = INDUSTRY_BENCHMARKS.foodCost.ideal
  /\ inputs.laborCostPercent \in {INDUSTRY_BENCHMARKS.laborCost.ideal, Frac(285, 10)}
  /\ inputs.occupancyCostPercent = INDUSTRY_BENCHMARKS.occupancyCost.ideal
  /\ inputs.otherExpensesPercent = INDUSTRY_BENCHMARKS.otherExpenses.ideal
  /\ Gt(inputs.annualSales, Num(0))

C10_ScoreCeiling ==
  Returned =>
    /\ Le(health.score, Num(120))
    /\ (C10_IdealMidpoints
        /\ Ge(Div(results.cashFlow, inputs.annualSales), Frac(1, 2)))
         => Eq(health.score, Num(120))

C10_Witness ==
  /\ Returned
  /\ C10_IdealMidpoints
  /\ Eq(inputs.laborCostPercent, Frac(285, 10))
  /\ Ge(Div(results.cashFlow, inputs.annualSales), Frac(1, 2))
  /\ Eq(health.score, Num(120))

\* The same with the benchmark table's ideal labor cost of 30
C10_WitnessLabor30 ==
  /\ Returned
  /\ C10_IdealMidpoints
  /\ inputs.laborCostPercent = INDUSTRY_BENCHMARKS.laborCost.ideal
  /\ Ge(Div(results.cashFlow, inputs.annualSales), Frac(1, 2))
  /\ Eq(health.score, Num(120))

\* Both calls of SpecPair have returned
TwoCalls == pc = "second" /\ Len(calls) = 2

\* C11 as stated: with all other inputs fixed and cashFlow > 0, for all
\* desiredROI values r1 < r2 in 0..100 the estimated value at r2 is strictly
\* less than the estimated value at r1.
C11_RoiOrdered(a, b, fromZero) ==
  /\ Gt(a.ret.cashFlow, Num(0))
  /\ IF fromZero THEN Ge(a.args.desiredROI, Num(0)) ELSE Gt(a.args.desiredROI, Num(0))
  /\ Lt(a.args.desiredROI, b.args.desiredROI)
  /\ Le(b.args.desiredROI, Num(100))

C11_Decreases(fromZero) ==
  TwoCalls =>
    \A i, j \in 1..2 :
      (/\ [calls[i].args EXCEPT !.desiredROI = Num(0)]
            = [calls[j].args EXCEPT !.desiredROI = Num(0)]
       /\ C11_RoiOrdered(calls[i], calls[j], fromZero))
        => Lt(calls[j].ret.estimatedValue, calls[i].ret.estimatedValue)

C11_RoiMonotoneFromZero == C11_Decreases(TRUE)

\* C11, amended: the same for all desiredROI values 0 < r1 < r2 <= 100.  At
\* r1 = 0 the guard of step 4 returns 0, which is below every value a
\* positive cash flow yields.
C11_RoiMonotone == C11_Decreases(FALSE)

C11_Witness ==
  /\ TwoCalls
  /\ calls[1].args.ownerCompensation = calls[2].args.ownerCompensation
  /\ C11_RoiOrdered(calls[1], calls[2], FALSE)
  /\ Gt(calls[1].ret.estimatedValue, calls[2].ret.estimatedValue)
  /\ Gt(calls[2].ret.estimatedValue, Num(0))

\* The case the statement gets wrong: from desiredROI 0 to a positive one the
\* estimated value rises from 0
C11_RisesFromZero ==
  /\ TwoCalls
  /\ calls[1].args.ownerCompensation = calls[2].args.ownerCompensation
  /\ Gt(calls[1].ret.cashFlow, Num(0))
  /\ Eq(calls[1].args.desiredROI, Num(0))
  /\ Gt(calls[2].args.desiredROI, Num(0))
  /\ Eq(calls[1].ret.estimatedValue, Num(0))
  /\ Gt(calls[2].ret.estimatedValue, Num(0))

\* C12 as stated: for every setting of the other six inputs and all
\* ownerCompensation values c1 < c2, the cash flow at c2 is strictly greater
\* than at c1 and the estimated value at c2 is strictly greater than at c1.
C12_Increases(anyRoi) ==
  TwoCalls =>
    \A i, j \in 1..2 :
      (/\ [calls[i].args EXCEPT !.ownerCompensation = Num(0)]
            = [calls[j].args EXCEPT !.ownerCompensation = Num(0)]
       /\ Lt(calls[i].args.ownerCompensation, calls[j].args.ownerCompensation))
        => /\ Gt(calls[j].ret.cashFlow, calls[i].ret.cashFlow)
           /\ (anyRoi \/ Gt(calls[i].args.desiredROI, Num(0)))
                => Gt(calls[j].ret.estimatedValue, calls[i].ret.estimatedValue)

C12_OwnerMonotoneAnyRoi == C12_Increases(TRUE)

\* C12, amended: the cash flow is strictly greater for every setting of the
\* other inputs, the estimated value for every setting with desiredROI > 0.
\* For desiredROI <= 0 the estimated value is 0 at c1 and at c2.
C12_OwnerMonotone == C12_Increases(FALSE)

C12_Witness ==
  /\ TwoCalls
  /\ calls[1].args.desiredROI = calls[2].args.desiredROI
  /\ Gt(calls[1].args.desiredROI, Num(0))
  /\ Lt(calls[1].args.ownerCompensation, calls[2].args.ownerCompensation)
  /\ Gt(calls[2].ret.cashFlow, calls[1].ret.cashFlow)
  /\ Gt(calls[2].ret.estimatedValue, calls[1].ret.estimatedValue)

\* The case the statement gets wrong: at desiredROI 0 the estimated value
\* stays 0 while the cash flow grows
C12_FlatAtZeroRoi ==
  /\ TwoCalls
  /\ Eq(calls[1].args.desiredROI, Num(0))
  /\ Eq(calls[2].args.desiredROI, Num(0))
  /\ Lt(calls[1].ret.cashFlow, calls[2].ret.cashFlow)
  /\ Eq(calls[1].ret.estimatedValue, calls[2].ret.estimatedValue)

C13_WitnessValidate ==
  /\ Len(calls) = 3
  /\ calls[1].fn = "validateInputs"
  /\ calls[2].fn = "calculateValuation"
  /\ calls[3].fn = "validateInputs"
  /\ calls[1].args = calls[3].args
  /\ calls[1].ret = calls[3].ret
  /\ ~calls[1].ret.valid

\* The ranges of the validation table, both ends included
C14_InRange(x, lo, hi) == Le(Num(lo), x) /\ Le(x, Num(hi))

C14_SalesOk == C14_InRange(inputs.annualSales, 100000, 50000000)

C14_FoodOk == C14_InRange(inputs.foodCostPercent, 15, 60)

C14_LaborOk == C14_InRange(inputs.laborCostPercent, 15, 50)

C14_OccupancyOk == C14_InRange(inputs.occupancyCostPercent, 3, 20)

C14_OtherOk == C14_InRange(inputs.otherExpensesPercent, 5, 30)

C14_OwnerOk == C14_InRange(inputs.ownerCompensation, 0, 1000000)

C14_RoiOk == C14_InRange(inputs.desiredROI, 10, 50)

C14_Sum ==
  Add(inputs.otherExpensesPercent,
      Add(inputs.occupancyCostPercent,
          Add(inputs.laborCostPercent, inputs.foodCostPercent)))

C14_SumOk == Le(C14_Sum, Num(100))

\* C14: validateInputs returns valid = true if and only if
\* 100000 <= annualSales <= 50000000, 15 <= food <= 60, 15 <= labor <= 50,
\* 3 <= occupancy <= 20, 5 <= other <= 30, 0 <= ownerCompensation <= 1000000,
\* 10 <= desiredROI <= 50 and food + labor + occupancy + other <= 100; and
\* valid always equals (errors is empty).
C14_ValidIff ==
  Returned =>
    /\ results.valid <=> (/\ C14_SalesOk /\ C14_FoodOk /\ C14_LaborOk
                          /\ C14_OccupancyOk /\ C14_OtherOk /\ C14_OwnerOk
                          /\ C14_RoiOk /\ C14_SumOk)
    /\ results.valid <=> (results.errors = <<>>)

\* A record accepted with the sales, the compensation and the ROI on an end
\* of their ranges and the four percentages adding up to exactly 100
C14_Witness ==
  /\ Returned
  /\ results.valid
  /\ results.errors = <<>>
  /\ Eq(inputs.annualSales, Num(100000))
  /\ Eq(inputs.ownerCompensation, Num(1000000))
  /\ Eq(inputs.desiredROI, Num(10))
  /\ Eq(inputs.foodCostPercent, Num(60))
  /\ Eq(C14_Sum, Num(100))

\* The rule a message belongs to, in the order of the fields; the two
\* messages of the annual sales share a rule, and so do the two of the
\* owner's compensation
C15_RuleOf(message) ==
  CASE message \in {"Annual sales must be at least $100,000",
                    "Annual sales must not exceed $50,000,000"} -> 1
    [] message = "Food cost must be between 15% and 60%" -> 2
    [] message = "Labor cost must be between 15% and 50%" -> 3
    [] message = "Occupancy cost must be between 3% and 20%" -> 4
    [] message = "Other expenses must be between 5% and 30%" -> 5
    [] message \in {"Owner compensation cannot be negative",
                    "Owner compensation must not exceed $1,000,000"} -> 6
    [] message = "Desired ROI must be between 10% and 50%" -> 7
    [] message = "Total expenses cannot exceed 100% of sales" -> 8
    [] OTHER -> 0

C15_Violated ==
  <<~C14_SalesOk, ~C14_FoodOk, ~C14_LaborOk, ~C14_OccupancyOk, ~C14_OtherOk,
    ~C14_OwnerOk, ~C14_RoiOk, ~C14_SumOk>>

\* C15: validateInputs appends exactly one message per violated rule and
\* nothing for a satisfied rule; the messages come in the order annualSales,
\* foodCostPercent, laborCostPercent, occupancyCostPercent,
\* otherExpensesPercent, ownerCompensation, desiredROI, the sum of the
\* percentages last; so errors has no duplicate and at most 8 entries.
C15_OneMessagePerRule ==
  Returned =>
    LET errors == results.errors
    IN /\ \A i \in 1..Len(errors) : C15_RuleOf(errors[i]) \in 1..8
       /\ \A k \in 1..8 :
            Cardinality({i \in 1..Len(errors) : C15_RuleOf(errors[i]) = k})
              = (IF C15_Violated[k] THEN 1 ELSE 0)
       /\ \A i, j \in 1..Len(errors) :
            i < j => C15_RuleOf(errors[i]) < C15_RuleOf(errors[j])
       /\ \A i, j \in 1..Len(errors) : i # j => errors[i] # errors[j]
       /\ Len(errors) <= 8

\* Every rule violated: eight messages
C15_Witness ==
  /\ Returned
  /\ Len(results.errors) = 8
  /\ results.errors[1] = "Annual sales must be at least $100,000"
  /\ results.errors[8] = "Total expenses cannot exceed 100% of sales"

\* Some rules violated and others not, the sum rule satisfied
C15_WitnessMixed ==
  /\ Returned
  /\ results.errors = <<"Annual sales must not exceed $50,000,000",
                         "Labor cost must be between 15% and 50%",
                         "Owner compensation must not exceed $1,000,000",
                         "Desired ROI must be between 10% and 50%">>

C16_OthersValid ==
  /\ C14_FoodOk /\ C14_LaborOk /\ C14_OccupancyOk /\ C14_OtherOk
  /\ C14_OwnerOk /\ C14_RoiOk /\ C14_SumOk

\* C16: with all other fields valid, annualSales = 100000 and
\* annualSales = 50000000 are accepted; 99999 is rejected with exactly the one
\* message naming the $100,000 minimum, 50000001 with exactly the one message
\* naming the $50,000,000 maximum; the two messages never appear together.
C16_SalesBoundary ==
  Returned =>
    /\ C16_OthersValid =>
         /\ inputs.annualSales \in {Num(100000), Num(50000000)}
              => (results.valid /\ results.errors = <<>>)
         /\ inputs.annualSales = Num(99999)
              => (/\ ~results.valid
                  /\ results.errors = <<"Annual sales must be at least $100,000">>)
         /\ inputs.annualSales = Num(50000001)
              => (/\ ~results.valid
                  /\ results.errors = <<"Annual sales must not exceed $50,000,000">>)
    /\ ~(\E i, j \in 1..Len(results.errors) :
            /\ results.errors[i] = "Annual sales must be at least $100,000"
            /\ results.errors[j] = "Annual sales must not exceed $50,000,000")

C16_Witness ==
  /\ Returned
  /\ C16_OthersValid
  /\ inputs.annualSales = Num(99999)
  /\ results.errors = <<"Annual sales must be at least $100,000">>

C16_WitnessAccepted ==
  /\ Returned
  /\ C16_OthersValid
  /\ inputs.annualSales = Num(50000000)
  /\ results.valid

C16_WitnessMaximum ==
  /\ Returned
  /\ C16_OthersValid
  /\ inputs.annualSales = Num(50000001)
  /\ results.errors = <<"Annual sales must not exceed $50,000,000">>

C17_HasTotalMessage ==
  \E i \in 1..Len(results.errors) :
    results.errors[i] = "Total expenses cannot exceed 100% of sales"

\* C17: "Total expenses cannot exceed 100% of sales" is in errors if and only
\* if food + labor + occupancy + other > 100, whether or not a rule of a
\* single field is violated; food 60, labor 50, occupancy 20, other 30 yields
\* valid = false with that message.
C17_TotalRule ==
  Returned =>
    /\ C17_HasTotalMessage <=> Gt(C14_Sum, Num(100))
    /\ (/\ inputs.foodCostPercent = Num(60)
        /\ inputs.laborCostPercent = Num(50)
        /\ inputs.occupancyCostPercent = Num(20)
        /\ inputs.otherExpensesPercent = Num(30))
         => (~results.valid /\ C17_HasTotalMessage)

\* The sum of 160 with every field on its own upper end: the message of the
\* total is the only one
C17_Witness ==
  /\ Returned
  /\ inputs.foodCostPercent = Num(60)
  /\ inputs.laborCostPercent = Num(50)
  /\ inputs.occupancyCostPercent = Num(20)
  /\ inputs.otherExpensesPercent = Num(30)
  /\ C14_SalesOk /\ C14_OwnerOk /\ C14_RoiOk
  /\ ~results.valid
  /\ results.errors = <<"Total expenses cannot exceed 100% of sales">>

\* A field out of its range and no message of the total: the sum is at most 100
C17_WitnessFieldOnly ==
  /\ Returned
  /\ ~C14_FoodOk
  /\ ~results.valid
  /\ ~C17_HasTotalMessage
  /\ C14_SumOk

\* The sum just above 100 with each percentage inside its own range
C17_WitnessJustAbove ==
  /\ Returned
  /\ C14_FoodOk /\ C14_LaborOk /\ C14_OccupancyOk /\ C14_OtherOk
  /\ Eq(C14_Sum, Frac(1001, 10))
  /\ C17_HasTotalMessage

\* C18: validation is advisory in the calculator: once the effect has run
\* after a change of inputs, validationErrors is validateInputs(inputs).errors
\* and results and breakdown are those of calculateValuation(inputs) for the
\* current inputs, also when errors is not empty; every change of inputs
\* makes the effect due again, so no settled state shows stale or withheld
\* results.
C18_Settled == pc = "settled"

C18_AdvisoryValidation ==
  C18_Settled =>
    /\ validationErrors = validateInputs(inputs).errors
    /\ results = calculateValuation(inputs)
    /\ breakdown = calculateValuation(inputs).breakdown

\* Every step that changes inputs leaves the effect due
C18_ChangeSchedulesEffect == [][inputs' # inputs => pc' = "effect"]_vars

\* A settled state after a change to inputs that fail validation, showing the
\* results of these inputs
C18_Witness ==
  /\ C18_Settled
  /\ inputs # initialInputs
  /\ Len(validationErrors) >= 2
  /\ results = calculateValuation(inputs)
  /\ Eq(results.estimatedValue,
        Div(Mul(results.cashFlow, Num(100)), inputs.desiredROI))
  /\ breakdown = results.breakdown

\* x is in [lo, hi)
InTier(x, lo, hi) == Ge(x, Num(lo)) /\ Lt(x, Num(hi))

\* a * s = b * x + c
Linear(a, s, b, x, c) == Eq(Mul(Num(a), s), Add(Mul(Num(b), x), Num(c)))

\* C19: the profit-margin sub-score is 20 for m >= 15, 17+((m-12)/3)*3 on
\* [12,15), 15+((m-10)/2)*2 on [10,12), 11+((m-7)/3)*4 on [7,10),
\* 8+((m-5)/2)*3 on [5,7), (m/5)*8 on [0,5) and 0 for m < 0.  Each formula is
\* stated cleared of its fraction: s = m+5, s = m+5, 3s = 4m+5, 2s = 3m+1,
\* 5s = 8m.
C19_ProfitTiers ==
  Returned =>
    LET m == health.profitMargin
        s == health.profitScore
    IN /\ Ge(m, Num(15)) => Eq(s, Num(20))
       /\ InTier(m, 12, 15) => Linear(1, s, 1, m, 5)
       /\ InTier(m, 10, 12) => Linear(1, s, 1, m, 5)
       /\ InTier(m, 7, 10) => Linear(3, s, 4, m, 5)
       /\ InTier(m, 5, 7) => Linear(2, s, 3, m, 1)
       /\ InTier(m, 0, 5) => Linear(5, s, 8, m, 0)
       /\ Lt(m, Num(0)) => Eq(s, Num(0))

\* A margin of 8.5, inside the tier from 7 to 10: 13 points
C19_Witness ==
  /\ Returned
  /\ results = Null
  /\ Eq(health.profitMargin, Frac(85, 10))
  /\ Eq(health.profitScore, Num(13))

\* The lower end of every tier, and a negative margin
C19_WitnessEnds ==
  /\ Returned
  /\ \/ Eq(health.profitMargin, Num(7)) /\ Eq(health.profitScore, Num(11))
     \/ Eq(health.profitMargin, Num(-1)) /\ Eq(health.profitScore, Num(0))

\* C20: with cf = cashFlow/annualSales*100 and annualSales > 0 the cash-flow
\* sub-score is 60 for cf >= 50, 55+((cf-40)/10)*5 on [40,50),
\* 45+((cf-30)/10)*10 on [30,40), 35+((cf-20)/10)*10 on [20,30),
\* 27+((cf-15)/5)*8 on [15,20), 18+((cf-10)/5)*9 on [10,15),
\* 8+((cf-5)/5)*10 on [5,10), (cf/5)*8 on [0,5) and 0 for cf < 0.  Each
\* formula is stated cleared of its fraction: 2s = cf+70, s = cf+15,
\* s = cf+15, 5s = 8cf+15, 5s = 9cf, s = 2cf-2, 5s = 8cf.
C20_CashFlowTiers ==
  (Returned /\ Gt(inputs.annualSales, Num(0))) =>
    LET cf == health.cashFlowMargin
        s == health.cashFlowScore
    IN /\ Eq(Mul(cf, inputs.annualSales), Mul(health.cashFlow, Num(100)))
       /\ Ge(cf, Num(50)) => Eq(s, Num(60))
       /\ InTier(cf, 40, 50) => Linear(2, s, 1, cf, 70)
       /\ InTier(cf, 30, 40) => Linear(1, s, 1, cf, 15)
       /\ InTier(cf, 20, 30) => Linear(1, s, 1, cf, 15)
       /\ InTier(cf, 15, 20) => Linear(5, s, 8, cf, 15)
       /\ InTier(cf, 10, 15) => Linear(5, s, 9, cf, 0)
       /\ InTier(cf, 5, 10) => Linear(1, s, 2, cf, -2)
       /\ InTier(cf, 0, 5) => Linear(5, s, 8, cf, 0)
       /\ Lt(cf, Num(0)) => Eq(s, Num(0))

\* A cash flow of 17.5% of the sales, inside the tier from 15 to 20: 31 points
C20_Witness ==
  /\ Returned
  /\ results = Null
  /\ Eq(inputs.annualSales, Num(1000000))
  /\ Eq(health.cashFlow, Num(175000))
  /\ Eq(health.cashFlowMargin, Frac(175, 10))
  /\ Eq(health.cashFlowScore, Num(31))

\* The ends 40 and 50 of the bonus tier, and a negative cash flow
C20_WitnessEnds ==
  /\ Returned
  /\ \/ Eq(health.cashFlowMargin, Num(40)) /\ Eq(health.cashFlowScore, Num(55))
     \/ Eq(health.cashFlowMargin, Num(50)) /\ Eq(health.cashFlowScore, Num(60))
     \/ Lt(health.cashFlowMargin, Num(0)) /\ Eq(health.cashFlowScore, Num(0))

\* x is in [lo, hi]
InBand(x, lo, hi) == Ge(x, Num(lo)) /\ Le(x, Num(hi))

\* min(|x - centre|, cap), as the claims write it
Deviation(x, centre, cap) ==
  LET away == IF Lt(x, centre) THEN Sub(centre, x) ELSE Sub(x, centre)
  IN IF Lt(cap, away) THEN cap ELSE away

\* C21: the food-cost sub-score is 15 if 28 <= f <= 32; else
\* 15-(min(|f-30|,5)/5)*3 if 25 <= f <= 35; else 12-((min(|f-30|,10)-5)/5)*4
\* if 20 <= f <= 40; else 4 if 15 <= f <= 45; else 0; so 28 and 32 score 15,
\* 25 and 35 score 12, 20 and 40 score 8, 15 and 45 score 4.  The formulas are
\* stated cleared of their fractions: 5s = 75 - 3d and 5s = 80 - 4d.
C21_FoodTiers ==
  Returned =>
    LET f == inputs.foodCostPercent
        s == health.foodScore
    IN /\ IF InBand(f, 28, 32) THEN Eq(s, Num(15))
          ELSE IF InBand(f, 25, 35)
            THEN Linear(5, s, -3, Deviation(f, Num(30), Num(5)), 75)
          ELSE IF InBand(f, 20, 40)
            THEN Linear(5, s, -4, Deviation(f, Num(30), Num(10)), 80)
          ELSE IF InBand(f, 15, 45) THEN Eq(s, Num(4))
          ELSE Eq(s, Num(0))
       /\ f \in {Num(28), Num(32)} => Eq(s, Num(15))
       /\ f \in {Num(25), Num(35)} => Eq(s, Num(12))
       /\ f \in {Num(20), Num(40)} => Eq(s, Num(8))
       /\ f \in {Num(15), Num(45)} => Eq(s, Num(4))

\* The upper end of the second tier: 35 scores 12
C21_Witness ==
  /\ Returned
  /\ Eq(inputs.foodCostPercent, Num(35))
  /\ Eq(health.foodScore, Num(12))

\* Inside the third tier: 22.5 scores 10
C21_WitnessInside ==
  /\ Returned
  /\ Eq(inputs.foodCostPercent, Frac(225, 10))
  /\ Eq(health.foodScore, Num(10))

\* C22: the labor-cost sub-score is 15 if 25 <= l <= 32; else
\* 15-(min(|l-28.5|,6.5)/6.5)*3 if 22 <= l <= 35; else
\* 12-((min(|l-28.5|,11.5)-6.5)/5)*4 if 20 <= l <= 40; else 4 if
\* 15 <= l <= 45; else 0; a value on a shared boundary takes the earlier
\* tier.  The formulas are stated cleared of their fractions: 13s = 195 - 6d
\* and 5s = 86 - 4d.
C22_LaborTiers ==
  Returned =>
    LET l == inputs.laborCostPercent
        s == health.laborScore
    IN /\ IF InBand(l, 25, 32) THEN Eq(s, Num(15))
          ELSE IF InBand(l, 22, 35)
            THEN Linear(13, s, -6, Deviation(l, Frac(285, 10), Frac(65, 10)), 195)
          ELSE IF InBand(l, 20, 40)
            THEN Linear(5, s, -4, Deviation(l, Frac(285, 10), Frac(115, 10)), 86)
          ELSE IF InBand(l, 15, 45) THEN Eq(s, Num(4))
          ELSE Eq(s, Num(0))
       /\ l \in {Num(25), Num(32)} => Eq(s, Num(15))
       /\ l \in {Num(22), Num(35)} => Eq(s, Num(12))

\* The lower end of the third tier: 20 is 8.5 away from 28.5 and scores 10.4
C22_Witness ==
  /\ Returned
  /\ Eq(inputs.laborCostPercent, Num(20))
  /\ Eq(health.laborScore, Frac(104, 10))

\* The two ends of the second tier
C22_WitnessBoundary ==
  /\ Returned
  /\ inputs.laborCostPercent \in {Num(22), Num(35)}
  /\ Eq(health.laborScore, Num(12))

C23_WitnessLastTier ==
  /\ Returned
  /\ Eq(inputs.occupancyCostPercent, Frac(151, 10))
  /\ Eq(health.occupancyScore, Num(3))

\* x is in [lo, hi] and outside [inLo, inHi]
C24_InTier(x, lo, hi, inLo, inHi) == InBand(x, lo, hi) /\ ~InBand(x, inLo, inHi)

C24_FoodAndLabor ==
  LET f == inputs.foodCostPercent
      l == inputs.laborCostPercent
  IN /\ C24_InTier(f, 25, 35, 28, 32) => InBand(health.foodScore, 12, 15)
     /\ C24_InTier(f, 20, 40, 25, 35) => InBand(health.foodScore, 8, 12)
     /\ C24_InTier(l, 22, 35, 25, 32) => InBand(health.laborScore, 12, 15)
     /\ C24_InTier(l, 20, 40, 22, 35) => InBand(health.laborScore, 8, 12)

\* C24: within the second and third tier of each cost factor the sub-score
\* lies in the point range the code documents beside the tier: food 12..15
\* and 8..12, labor 12..15 and 8..12, occupancy 8..10 and 5..8.
C24_DocumentedRanges ==
  Returned =>
    LET o == inputs.occupancyCostPercent
    IN /\ C24_FoodAndLabor
       /\ C24_InTier(o, 5, 12, 6, 10) => InBand(health.occupancyScore, 8, 10)
       /\ C24_InTier(o, 3, 15, 5, 12) => InBand(health.occupancyScore, 5, 8)

\* What the code does: the ranges of food and labor hold, and so do those of
\* occupancy above the band; from 3 up to 5 the third tier yields 12 - (8 - o),
\* which is above 8 for every o above 4
C24_OccupancyBelowFive ==
  Returned =>
    LET o == inputs.occupancyCostPercent
        s == health.occupancyScore
    IN /\ C24_FoodAndLabor
       /\ C24_InTier(o, 5, 12, 6, 10) => InBand(s, 8, 10)
       /\ (Gt(o, Num(12)) /\ Le(o, Num(15))) => InBand(s, 5, 8)
       /\ (Ge(o, Num(3)) /\ Lt(o, Num(5))) => Eq(s, Add(o, Num(4)))
       /\ (Gt(o, Num(4)) /\ Lt(o, Num(5))) => Gt(s, Num(8))

\* b is on the same side of the band [lo, hi] as a, and farther from it
C25_Farther(a, b, lo, hi) ==
  \/ Lt(b, a) /\ Le(a, Num(lo))
  \/ Gt(b, a) /\ Ge(a, Num(hi))

C25_FoodAndLabor ==
  /\ \A b \in factorFoodValues :
       C25_Farther(inputs.foodCostPercent, b, 28, 32)
         => Le(foodScore(b), health.foodScore)
  /\ \A b \in factorLaborValues :
       C25_Farther(inputs.laborCostPercent, b, 25, 32)
         => Le(laborScore(b), health.laborScore)

\* C25: each cost-factor sub-score never increases as the percentage moves
\* farther from its full-score band: for a and b on the same side of the
\* band, b farther than a, score(b) <= score(a).
C25_NeverHigherFartherOut ==
  Returned =>
    /\ C25_FoodAndLabor
    /\ \A b \in factorOccupancyValues :
         C25_Farther(inputs.occupancyCostPercent, b, 6, 10)
           => Le(occupancyScore(b), health.occupancyScore)

\* What the code does: food and labor never score higher farther out, nor
\* does occupancy above the band; below the band the third tier starts at
\* 4.9 with 8.9 points, above the 8.5 points of 5
C25_OccupancyRisesBelowFive ==
  Returned =>
    /\ C25_FoodAndLabor
    /\ \A b \in factorOccupancyValues :
         (Gt(b, inputs.occupancyCostPercent) /\ Ge(inputs.occupancyCostPercent, Num(10)))
           => Le(occupancyScore(b), health.occupancyScore)
    /\ Eq(inputs.occupancyCostPercent, Num(5))
         => (/\ Eq(health.occupancyScore, Frac(85, 10))
             /\ Eq(occupancyScore(Frac(49, 10)), Frac(89, 10)))

C26_ProfitBreakpoints == {Num(5), Num(7), Num(10), Num(12), Num(15)}

C26_CashFlowBreakpoints ==
  {Num(5), Num(10), Num(15), Num(20), Num(30), Num(40), Num(50)}

\* The line through the scores 0.2 and 0.1 below x, the lower tier's formula,
\* passes through the score at x
C26_MeetsLowerTier(atX, belowX, farBelowX) ==
  Eq(Add(atX, farBelowX), Mul(Num(2), belowX))

\* C26: the profit-margin sub-score and the cash-flow sub-score are each
\* non-decreasing in their margin, and at every breakpoint (5, 7, 10, 12, 15
\* for profit; 5, 10, 15, 20, 30, 40, 50 for cash flow) the lower tier's
\* formula evaluated at the breakpoint equals the value the upper tier
\* assigns there.
C26_NonDecreasingNoJump ==
  Returned =>
    LET m == health.profitMargin
        cf == health.cashFlowMargin
    IN /\ \A m2 \in tierProfitMargins :
            Le(m, m2) => Le(health.profitScore, profitScore(m2))
       /\ \A c2 \in tierCashFlows :
            LET cf2 == cashFlowMarginOf(c2, inputs.annualSales)
            IN Le(cf, cf2) => Le(health.cashFlowScore, cashFlowScore(cf2))
       /\ m \in C26_ProfitBreakpoints =>
            C26_MeetsLowerTier(health.profitScore,
                               profitScore(Sub(m, Frac(1, 10))),
                               profitScore(Sub(m, Frac(2, 10))))
       /\ cf \in C26_CashFlowBreakpoints =>
            C26_MeetsLowerTier(health.cashFlowScore,
                               cashFlowScore(Sub(cf, Frac(1, 10))),
                               cashFlowScore(Sub(cf, Frac(2, 10))))
       /\ Eq(m, Num(5)) => Linear(5, health.profitScore, 8, m, 0)
       /\ Eq(m, Num(7)) => Linear(2, health.profitScore, 3, m, 1)
       /\ Eq(m, Num(10)) => Linear(3, health.profitScore, 4, m, 5)
       /\ Eq(m, Num(12)) => Linear(1, health.profitScore, 1, m, 5)
       /\ Eq(m, Num(15)) => Linear(1, health.profitScore, 1, m, 5)
       /\ Eq(cf, Num(5)) => Linear(5, health.cashFlowScore, 8, cf, 0)
       /\ Eq(cf, Num(10)) => Linear(1, health.cashFlowScore, 2, cf, -2)
       /\ Eq(cf, Num(15)) => Linear(5, health.cashFlowScore, 9, cf, 0)
       /\ Eq(cf, Num(20)) => Linear(5, health.cashFlowScore, 8, cf, 15)
       /\ Eq(cf, Num(30)) => Linear(1, health.cashFlowScore, 1, cf, 15)
       /\ Eq(cf, Num(40)) => Linear(1, health.cashFlowScore, 1, cf, 15)
       /\ Eq(cf, Num(50)) => Linear(2, health.cashFlowScore, 1, cf, 70)

\* The cash-flow breakpoint 50, where the score reaches its cap of 60 from
\* 59.95 at 49.9
C26_Witness ==
  /\ Returned
  /\ Eq(health.cashFlowMargin, Num(50))
  /\ Eq(health.cashFlowScore, Num(60))
  /\ Eq(cashFlowScore(Frac(499, 10)), Frac(5995, 100))

\* The profit breakpoint 10, reached from 14.87 at 9.9
C26_WitnessProfit ==
  /\ Returned
  /\ Eq(health.profitMargin, Num(10))
  /\ Eq(health.profitScore, Num(15))
  /\ Lt(profitScore(Frac(99, 10)), Num(15))
  /\ Gt(profitScore(Frac(99, 10)), Frac(148, 10))

\* The effect has run on a record that validateInputs accepts
C27_Accepted == pc = "settled" /\ validationErrors = <<>>

\* C27: for every input record that validateInputs accepts, calculateValuation
\* yields operatingProfit > 0, 0 < profitMargin <= 100,
\* cashFlow >= operatingProfit > 0, estimatedValue > 0 and
\* totalOperatingExpenses + breakdown.foodCost <= annualSales.
C27_SensibleOutput ==
  C27_Accepted =>
    /\ Gt(results.operatingProfit, Num(0))
    /\ Gt(results.profitMargin, Num(0))
    /\ Le(results.profitMargin, Num(100))
    /\ Ge(results.cashFlow, results.operatingProfit)
    /\ Gt(results.estimatedValue, Num(0))
    /\ Le(Add(breakdown.totalOperatingExpenses, breakdown.foodCost), inputs.annualSales)

\* An accepted record whose four percentages add up to 100 exactly, with no
\* owner compensation and the lowest accepted sales
C27_Witness ==
  /\ C27_Accepted
  /\ Eq(totalExpensePercent(inputs), Num(100))
  /\ Eq(inputs.foodCostPercent, Num(60))
  /\ Eq(inputs.ownerCompensation, Num(0))
  /\ Eq(inputs.annualSales, Num(100000))
  /\ Eq(results.cashFlow, results.operatingProfit)
  /\ Lt(results.profitMargin, Num(10))

\* A rejected record is calculated all the same, and its operating profit is
\* negative
C27_WitnessRejected ==
  /\ pc = "settled"
  /\ validationErrors # <<>>
  /\ Lt(results.operatingProfit, Num(0))

\* handleDownloadPDF would refuse in this state
C28_Refuses == results = Null \/ validationErrors # <<>>

\* A request is sent only from a state where results is non-null and
\* validationErrors is empty
C28_SentOnlyWhenAllowed ==
  Len(requests') > Len(requests) => (results # Null /\ validationErrors = <<>>)

\* Every request sent is a POST to /api/generate-pdf that carries results
C28_RequestsCarryResults ==
  \A i \in 1..Len(requests) :
    /\ requests[i].url = "/api/generate-pdf"
    /\ requests[i].body.results # Null

\* C28 as stated: a request to /api/generate-pdf is sent only from a state
\* where results is non-null and validationErrors is empty; when either
\* condition fails, handleDownloadPDF sends no request and leaves
\* isGeneratingPDF false; and after every download attempt that does start,
\* isGeneratingPDF eventually returns to false.
C28_LeavesFalse ==
  /\ [][/\ C28_SentOnlyWhenAllowed
        /\ (HandleDownloadPDF /\ C28_Refuses)
             => (requests' = requests /\ isGeneratingPDF' = FALSE)]_vars
  /\ (isGeneratingPDF ~> ~isGeneratingPDF)

\* C28 amended: a request to /api/generate-pdf is sent only from a state
\* where results is non-null and validationErrors is empty; when either
\* condition fails, handleDownloadPDF sends no request and leaves
\* isGeneratingPDF as it is, which is false unless an earlier download is
\* still in flight; and after every download attempt that does start,
\* whether the request succeeds, returns a non-OK response or throws,
\* isGeneratingPDF eventually returns to false.
C28_DownloadGating ==
  /\ [][/\ C28_SentOnlyWhenAllowed
        /\ (HandleDownloadPDF /\ C28_Refuses)
             => /\ requests' = requests
                /\ isGeneratingPDF' = isGeneratingPDF
                /\ isGeneratingPDF => \E i \in 1..Len(requests) : requests[i].state # "done"]_vars
  /\ (isGeneratingPDF ~> ~isGeneratingPDF)

\* A download was refused while an earlier one is still in flight
C28_Witness ==
  /\ toast = [title |-> "Cannot Generate PDF", variant |-> "destructive"]
  /\ C28_Refuses
  /\ isGeneratingPDF
  /\ \E i \in 1..Len(requests) : requests[i].state = "fetching"

\* A download was refused with none in flight
C28_WitnessRefused ==
  /\ toast = [title |-> "Cannot Generate PDF", variant |-> "destructive"]
  /\ C28_Refuses
  /\ requests = <<>>
  /\ ~isGeneratingPDF

\* Two downloads have started and both have ended, one with an error
C28_WitnessEnded ==
  /\ Len(requests) = 2
  /\ \A i \in 1..Len(requests) : requests[i].state = "done"
  /\ toast = [title |-> "Error", variant |-> "destructive"]
  /\ ~isGeneratingPDF

\* Request i carries an email and a paymentIntentId
C29_Complete(i) ==
  /\ requests[i].body # [malformed |-> TRUE]
  /\ ~NoEmail(requests[i].body.email)
  /\ ~Falsy(requests[i].body.paymentIntentId)

C29_AlreadyActivated ==
  jsonResponse(200, [success |-> TRUE, message |-> "Access already activated"])

\* At most one token per payment, and none from a request that lacks a field
C29_AtMostOneToken ==
  /\ \A token \in access_tokens :
       /\ Cardinality(tokensOfPayment(token.stripe_payment_intent_id)) = 1
       /\ ~NoEmail(token.email)
       /\ ~Falsy(token.stripe_payment_intent_id)
  /\ \A i \in 1..Len(requests) :
       (requests[i].pc = "done" /\ requests[i].body # [malformed |-> TRUE]
          /\ ~C29_Complete(i))
         => /\ requests[i].response.status = 400
            /\ \A token \in access_tokens : token.id # i

\* A step of a request whose token exists already does not reject it, does
\* not insert, and ends the lookup with 'Access already activated'; a step of
\* a request that lacks a field answers 400 and inserts nothing
C29_StepOfRequest(i) ==
  /\ (C29_Complete(i) /\ tokensOfPayment(requests[i].body.paymentIntentId) # {}
        /\ requests'[i] # requests[i])
       => /\ access_tokens' = access_tokens
          /\ requests[i].pc = "start" => requests'[i].pc = "lookup"
          /\ requests[i].pc = "lookup" => requests'[i].response = C29_AlreadyActivated
  /\ (requests[i].body # [malformed |-> TRUE] /\ ~C29_Complete(i)
        /\ requests'[i] # requests[i])
       => /\ access_tokens' = access_tokens
          /\ requests'[i].response.status = 400

C29_WitnessRace ==
  /\ Len(requests) = 2
  /\ requests[1].body = requests[2].body
  /\ requests[1].pc = "done"
  /\ requests[2].pc = "done"
  /\ requests[1].response.status = 500
  /\ requests[2].response.status = 200
  /\ requests[2].response.body.message = "Access successfully activated for 30 days"
  /\ Cardinality(access_tokens) = 1

\* A request without an email was answered 400
C29_WitnessMissing ==
  /\ Len(requests) >= 1
  /\ requests[1].pc = "done"
  /\ requests[1].body # [malformed |-> TRUE]
  /\ NoEmail(requests[1].body.email)
  /\ requests[1].response = jsonResponse(400, [error |-> "Missing required fields"])
  /\ access_tokens = {}

\* The request of a POST /api/check-access that has been answered
C30_Answered(i) == requests[i].pc = "done"

\* The store holds a token that is active, not expired, of the requested
\* calculator type ('valuation' if none) and of the trimmed, lower-cased
\* request email
C30_StoreHoldsToken(body) ==
  \E token \in access_tokens :
    /\ token.is_active = TRUE
    /\ token.expires_at >= now
    /\ token.calculator_type
         = (IF body.calculatorType = "" THEN "valuation" ELSE body.calculatorType)
    /\ token.email = toLowerCase(trim(body.email))

\* The email is missing or malformed, the service key is missing, the query
\* failed or req.json() threw
C30_Failed(i) ==
  \/ requests[i].body = [malformed |-> TRUE]
  \/ requests[i].body.email = <<>>
  \/ ~isValidEmail(toLowerCase(trim(requests[i].body.email)))
  \/ env.SUPABASE_SERVICE_ROLE_KEY = ""
  \/ requests[i].error

\* C30: POST /api/check-access answers hasAccess = true only when the store
\* holds a token with is_active = true, expires_at >= now, the requested
\* calculator type (default 'valuation') and an email equal to the trimmed,
\* lower-cased request email; for a missing or malformed email, a missing
\* service key, a query error or any thrown exception it answers
\* hasAccess = false with daysRemaining = 0; and checkAccess returns
\* hasAccess = false for an empty email, a non-OK response or a fetch error.
C30_FailsClosed ==
  /\ \A i \in 1..Len(requests) :
       C30_Answered(i) =>
         /\ requests[i].response.body.hasAccess \in BOOLEAN
         /\ requests[i].response.body.hasAccess
              => (~C30_Failed(i) /\ C30_StoreHoldsToken(requests[i].body))
         /\ C30_Failed(i) => requests[i].response.body = noAccess
  /\ \A k \in 1..Len(calls) :
       (\/ calls[k].args.email = <<>>
        \/ calls[k].fetched \in {"not ok", "rejected"})
         => (calls[k].ret.hasAccess = FALSE /\ calls[k].ret.daysRemaining = 0)

\* Access was granted to an email sent with capitals and spaces around it
C30_Witness ==
  /\ Len(requests) >= 1
  /\ C30_Answered(1)
  /\ requests[1].body # [malformed |-> TRUE]
  /\ requests[1].body.email = <<" ", "A", "@", "b", ".", "c", " ">>
  /\ requests[1].response.body.hasAccess
  /\ requests[1].response.body.daysRemaining = 10

\* Access was refused because the query failed, though the store holds a
\* good token
C30_WitnessQueryError ==
  /\ Len(requests) >= 1
  /\ C30_Answered(1)
  /\ requests[1].error
  /\ C30_StoreHoldsToken(requests[1].body)
  /\ requests[1].response.body = noAccess

\* checkAccess returned no access after a fetch error, though the route
\* had granted access
C30_WitnessClient ==
  /\ Len(calls) >= 1
  /\ calls[1].fetched = "rejected"
  /\ calls[1].ret = noAccess
  /\ C30_Answered(1)
  /\ requests[1].response.body.hasAccess

\* checkAccess returned the access the route granted
C30_WitnessGranted ==
  /\ Len(calls) >= 1
  /\ calls[1].fetched = "ok"
  /\ calls[1].ret.hasAccess

====
